---- MODULE Spec2Model ----
(***************************************************************************)
(* State-machine model of the event/state coordination layer of the        *)
(* CircuitPython HID clock firmware: the Button debounce/gesture machine   *)
(* (buttons.py), the Wi-Fi connectivity manager (wifi_module.py), the      *)
(* time-sync and weather caches (ntp_module.py, weather_module.py), the    *)
(* display scheduler (oled.py) and the startup sequence and main loop of   *)
(* code.py.  All times are in milliseconds of time.monotonic().            *)
(***************************************************************************)
EXTENDS Integers, Sequences, FiniteSets, TLC

(***************************************************************************)
(* code.py: the pause at the end of every pass of the main loop, and the   *)
(* pause of the startup sequence before the loop is entered                *)
(***************************************************************************)
LOOP_SLEEP == 50
STARTUP_SLEEP == 1000

(***************************************************************************)
(* Bounds of the model                                                     *)
(***************************************************************************)
\* number of polls of Button.update in one behaviour
MaxPolls == 14

\* elapsed times between two polls of Button.update: the main loop sleeps
\* LOOP_SLEEP after every pass, and a pass may take longer
ButtonSteps == {LOOP_SLEEP, 400}
\* poll distances shorter than DEBOUNCE_TIME, and the one of the main loop
DebounceSteps == {10, LOOP_SLEEP}

\* the connectivity specification stops the clock at this time
MaxWifiTime == 120000

\* elapsed times between two calls into wifi_module
WifiSteps == {3000, 12000}

\* retry_connection is not called any more once _connection_attempts is this
MaxAttemptCount == 7

\* number of time steps of the time-sync and weather specification
MaxFetchSteps == 5

\* elapsed times between two calls into weather_module: with the first, three
\* calls can be one second before, at and after the fetch interval
WeatherSteps == {1000, 1799000}

\* the responses of the weather API that the weather specification draws
WeatherResponses == {"good", "http_error", "exception"}

\* elapsed times between two calls into ntp_module, chosen like WeatherSteps
NtpSteps == {1000, 86399000}

\* number of passes of the main loop in one behaviour
MaxTicks == 6

\* elapsed times from the end of one pass of the main loop to the start of
\* the next: the pause of the loop, a time that ends a mic window but not a
\* status window opened just before it, and a time longer than every retry
\* interval
MainSteps == {LOOP_SLEEP, 2500, 301000}

\* the raw levels of the buttons at startup (nothing held, skip held) and in
\* one pass (nothing held, mic held)
BootLevels ==
    {[mic |-> FALSE, skip |-> FALSE, back |-> FALSE],
     [mic |-> FALSE, skip |-> TRUE, back |-> FALSE]}
PassLevels ==
    {[mic |-> FALSE, skip |-> FALSE, back |-> FALSE],
     [mic |-> TRUE, skip |-> FALSE, back |-> FALSE]}

\* the pins of the encoder in one pass
PassPins == {[clk |-> TRUE, dt |-> TRUE, sw |-> FALSE]}

\* the outcomes of the network operations of the startup and of one pass:
\* all fail, all succeed, or the connection succeeds and the servers fail
PassOutcomes ==
    {[connect |-> FALSE, ntp |-> FALSE, resp |-> "exception"],
     [connect |-> TRUE, ntp |-> TRUE, resp |-> "good"],
     [connect |-> TRUE, ntp |-> FALSE, resp |-> "http_error"]}

\* the reconnect specification: the program starts in normal mode or in
\* settings mode with the API key in settings.json; a pass starts after the pause of the loop or
\* after more than the retry interval and finds nothing pressed, mic, or
\* skip; the network works, or the connection
\* works and the servers fail, or the network is down; between two passes
\* the radio can lose its address and get it back
ReconnectConfigs == [SETTINGS_MODE : BOOLEAN, api_key : {"config"}]
ReconnectSteps == {LOOP_SLEEP, 301000}
ReconnectLevels ==
    {[mic |-> FALSE, skip |-> FALSE, back |-> FALSE],
     [mic |-> TRUE, skip |-> FALSE, back |-> FALSE]}
ReconnectOutcomes ==
    {[connect |-> FALSE, ntp |-> FALSE, resp |-> "exception"],
     [connect |-> TRUE, ntp |-> TRUE, resp |-> "good"],
     [connect |-> TRUE, ntp |-> FALSE, resp |-> "exception"]}

\* the configurations that the program starts with
StartConfigs == [SETTINGS_MODE : BOOLEAN, api_key : {"none", "config"}]

\* the rotation specification: the program starts in normal mode (the raw
\* level of skip is held at startup) with the API key in settings.json or in
\* settings.toml; a pass starts after the pause of the loop, after the
\* status window of the startup, or one rotation interval later; the
\* network works and the weather API answers with a good body, with a body
\* whose temperature cannot be formatted, or not at all, or the network is
\* down
\* number of steps of the configuration specification
MaxConfigSteps == 4

\* the configuration specification: /settings.json is missing, empty, not
\* JSON, or a JSON object that gives some of the keys of ConfigKeys (two
\* keys of DEFAULT_CONFIG and one key that DEFAULT_CONFIG does not have) a
\* value that is not the default; the file
\* system is writable for the program or read-only for it (and then
\* writable for the host computer); the time between two calls is below or
\* above the interval at which get_config looks at the file
ConfigKeys == {"SETTINGS_MODE", "WEATHER_UNITS", "EXTRA"}
ConfigValues == {"True", "metric"}
ConfigSteps == {1000, 11000}
DocumentValues == {"metric"}
ConfigDocuments == UNION {[S -> DocumentValues] : S \in SUBSET ConfigKeys}
HostDocuments == {d \in ConfigDocuments : DOMAIN d \in {{}, {"WEATHER_UNITS"}}}

\* number of calls of check_buttons in the buttons specification
MaxChecks == 7

\* the buttons specification: the time between two calls of check_buttons
\* is the pause of the loop or more than LONG_PRESS_TIME; a call finds
\* nothing pressed, mic, or skip and back
CheckSteps == {LOOP_SLEEP, 900}
CheckLevels ==
    {[mic |-> FALSE, skip |-> FALSE, back |-> FALSE],
     [mic |-> TRUE, skip |-> FALSE, back |-> FALSE],
     [mic |-> FALSE, skip |-> TRUE, back |-> TRUE]}

\* number of passes of the main loop in the input specification
MaxInputTicks == 4

\* the input specification: the program starts with or without the
\* settings flag and with any raw levels of skip and back; a pass starts
\* after the pause of the loop or after more than LONG_PRESS_TIME; a pass
\* finds nothing pressed, mic, skip, skip and back, or the switch of the
\* encoder; the network is down;
\* action_table yields skip before back or back before skip (the place of
\* mic does not change what check_buttons returns)
InputConfigs == [SETTINGS_MODE : BOOLEAN, api_key : {"none"}]
InputBootLevels == [mic : {FALSE}, skip : BOOLEAN, back : BOOLEAN]
InputSteps == {LOOP_SLEEP, 900}
InputSamples ==
    {[lv |-> [mic |-> FALSE, skip |-> FALSE, back |-> FALSE],
      pins |-> [clk |-> TRUE, dt |-> TRUE, sw |-> FALSE]],
     [lv |-> [mic |-> TRUE, skip |-> FALSE, back |-> FALSE],
      pins |-> [clk |-> TRUE, dt |-> TRUE, sw |-> FALSE]],
     [lv |-> [mic |-> FALSE, skip |-> TRUE, back |-> FALSE],
      pins |-> [clk |-> TRUE, dt |-> TRUE, sw |-> FALSE]],
     [lv |-> [mic |-> FALSE, skip |-> TRUE, back |-> TRUE],
      pins |-> [clk |-> TRUE, dt |-> TRUE, sw |-> FALSE]],
     [lv |-> [mic |-> FALSE, skip |-> FALSE, back |-> FALSE],
      pins |-> [clk |-> TRUE, dt |-> TRUE, sw |-> TRUE]]}
InputOutcomes == {[connect |-> FALSE, ntp |-> FALSE, resp |-> "exception"]}
InputOrders == {<<"mic", "skip", "back">>, <<"mic", "back", "skip">>}

RotationConfigs == [SETTINGS_MODE : {FALSE}, api_key : {"config", "env"}]
RotationBootLevels == {[mic |-> FALSE, skip |-> TRUE, back |-> FALSE]}
RotationLevels == {[mic |-> FALSE, skip |-> FALSE, back |-> FALSE]}
RotationSteps == {LOOP_SLEEP, 2500, 10000}
RotationOutcomes ==
    {[connect |-> TRUE, ntp |-> TRUE, resp |-> "good"],
     [connect |-> TRUE, ntp |-> TRUE, resp |-> "badtemp"],
     [connect |-> TRUE, ntp |-> TRUE, resp |-> "exception"],
     [connect |-> FALSE, ntp |-> FALSE, resp |-> "exception"]}

(***************************************************************************)
(* buttons.py: constants and ButtonState                                   *)
(***************************************************************************)
DEBOUNCE_TIME == 20
LONG_PRESS_TIME == 800
DOUBLE_CLICK_TIME == 400

IDLE == 0
PRESSED == 1
RELEASED == 2
DEBOUNCING == 3

VARIABLES
    now,        \* time.monotonic() as read by the last operation
    button,     \* fields of one Button object
    events,     \* (pressed, released, long_press, double_click) of the last update()
    raw,        \* raw level sampled by the last update() (TRUE = pressed)
    run,        \* the current (or just ended) run of pressed samples
    rel,        \* the releases so far: the last one and the chain of quick ones
    polls,      \* number of polls so far
    wifi,       \* globals of wifi_module and the state of wifi.radio
    op,         \* the last call into wifi_module: what it did and returned
    failStreak, \* failed connect attempts since the last success or reset
    scenario,   \* only non-forced ensure calls so far, every attempt failed
    sys,        \* globals of the other modules and of code.py
    fop,        \* the last call into ntp_module or weather_module
    fsteps,     \* number of time steps between those calls so far
    pc,         \* "boot" before the startup sequence of code.py, then "loop"
    ticks,      \* number of passes of the main loop so far
    tk,         \* what the last pass of the main loop did
    cm,         \* globals of config_manager
    disk,       \* the file system and /settings.json
    cop,        \* the last call into config_manager and the values set so far
    csteps      \* number of steps of the configuration specification so far

buttonVars == <<button, events, raw, run, rel, polls>>
wifiVars == <<wifi, op, failStreak, scenario>>
fetchVars == <<fop, fsteps>>
mainVars == <<pc, ticks, tk>>
configVars == <<cm, disk, cop, csteps>>
vars == <<now, button, events, raw, run, rel, polls, wifi, op, failStreak, scenario,
          sys, fop, fsteps, pc, ticks, tk, cm, disk, cop, csteps>>

\* Button.__init__ at time t
ButtonInit(t) ==
    [state |-> IDLE,
     last_state_change |-> t,
     press_start_time |-> 0,
     last_release_time |-> 0,
     previous_press_count |-> 0]

NoEvents ==
    [pressed |-> FALSE, released |-> FALSE, long_press |-> FALSE, double_click |-> FALSE]

\* Button.update, IDLE branch
UpdateIdle(b, t, is_pressed_now) ==
    [btn |-> IF is_pressed_now
             THEN [b EXCEPT !.state = DEBOUNCING, !.last_state_change = t]
             ELSE b,
     ev |-> NoEvents]

\* the DEBOUNCING branch without the second look at the level
UpdateDebouncingBlind(b, t, is_pressed_now) ==
    IF t - b.last_state_change >= DEBOUNCE_TIME
    THEN [btn |-> [b EXCEPT !.state = PRESSED, !.press_start_time = t],
          ev |-> [NoEvents EXCEPT !.pressed = TRUE]]
    ELSE [btn |-> b, ev |-> NoEvents]

\* a released sample ends the debounce at once
UpdateDebouncingEager(b, t, is_pressed_now) ==
    IF ~is_pressed_now
    THEN [btn |-> [b EXCEPT !.state = IDLE], ev |-> NoEvents]
    ELSE IF t - b.last_state_change >= DEBOUNCE_TIME
    THEN [btn |-> [b EXCEPT !.state = PRESSED, !.press_start_time = t],
          ev |-> [NoEvents EXCEPT !.pressed = TRUE]]
    ELSE [btn |-> b, ev |-> NoEvents]

\* Button.update, DEBOUNCING branch
UpdateDebouncing(b, t, is_pressed_now) ==
    IF t - b.last_state_change >= DEBOUNCE_TIME
    THEN IF is_pressed_now
         THEN [btn |-> [b EXCEPT !.state = PRESSED, !.press_start_time = t],
               ev |-> [NoEvents EXCEPT !.pressed = TRUE]]
         ELSE [btn |-> [b EXCEPT !.state = IDLE], ev |-> NoEvents]
    ELSE [btn |-> b, ev |-> NoEvents]

\* a double click also requires that the release before was a single click
IsDoubleClickOnce(b, t) ==
    t - b.last_release_time < DOUBLE_CLICK_TIME /\ b.previous_press_count = 1

\* the double-click test of Button.update
IsDoubleClick(b, t) == t - b.last_release_time < DOUBLE_CLICK_TIME

\* the long-press test with a strict comparison
IsLongPressStrict(b, t) == t - b.press_start_time > LONG_PRESS_TIME

\* the long-press test of Button.update
IsLongPress(b, t) == t - b.press_start_time >= LONG_PRESS_TIME

\* the long press is reported while the button is still held
UpdatePressedLongWhileHeld(b, t, is_pressed_now) ==
    IF ~is_pressed_now
    THEN [btn |-> [b EXCEPT !.state = RELEASED,
                            !.last_state_change = t,
                            !.previous_press_count =
                                IF IsDoubleClick(b, t) THEN 0 ELSE 1],
          ev |-> [pressed |-> FALSE,
                  released |-> TRUE,
                  long_press |-> IsLongPress(b, t),
                  double_click |-> IsDoubleClick(b, t)]]
    ELSE [btn |-> b, ev |-> [NoEvents EXCEPT !.long_press = IsLongPress(b, t)]]

\* Button.update, PRESSED branch
UpdatePressed(b, t, is_pressed_now) ==
    IF ~is_pressed_now
    THEN [btn |-> [b EXCEPT !.state = RELEASED,
                            !.last_state_change = t,
                            !.previous_press_count =
                                IF IsDoubleClick(b, t) THEN 0 ELSE 1],
          ev |-> [pressed |-> FALSE,
                  released |-> TRUE,
                  long_press |-> IsLongPress(b, t),
                  double_click |-> IsDoubleClick(b, t)]]
    ELSE [btn |-> b, ev |-> NoEvents]

\* Button.update, RELEASED branch
UpdateReleased(b, t, is_pressed_now) ==
    [btn |-> [b EXCEPT !.last_release_time = t, !.state = IDLE],
     ev |-> NoEvents]

\* Button.update at time t with raw level is_pressed_now
ButtonUpdate(b, t, is_pressed_now) ==
    CASE b.state = IDLE -> UpdateIdle(b, t, is_pressed_now)
      [] b.state = DEBOUNCING -> UpdateDebouncing(b, t, is_pressed_now)
      [] b.state = PRESSED -> UpdatePressed(b, t, is_pressed_now)
      [] b.state = RELEASED -> UpdateReleased(b, t, is_pressed_now)

AnyEvent(ev) == ev.pressed \/ ev.released \/ ev.long_press \/ ev.double_click

\* bookkeeping of the run of pressed samples: the times of its first and
\* last pressed sample, whether any poll of the run (the poll that sees it
\* end included) returned an event, and whether the last poll saw it end
NoRun == [start |-> -1, last |-> -1, hadEvent |-> FALSE, ended |-> FALSE]

NextRun(r, wasPressed, is_pressed_now, t, ev) ==
    IF is_pressed_now
    THEN IF wasPressed
         THEN [r EXCEPT !.last = t, !.hadEvent = r.hadEvent \/ AnyEvent(ev)]
         ELSE [start |-> t, last |-> t, hadEvent |-> AnyEvent(ev), ended |-> FALSE]
    ELSE IF wasPressed
         THEN [r EXCEPT !.hadEvent = r.hadEvent \/ AnyEvent(ev), !.ended = TRUE]
         ELSE NoRun

\* bookkeeping of the press cycles: the time of the last poll that returned
\* pressed, the time of the last poll that returned released, its distance to
\* the release before it (-1: there was none), and the double_click flags of
\* the chain of releases that each came less than DOUBLE_CLICK_TIME after the
\* one before (the first three of the chain)
NoRel == [pressedAt |-> -1, at |-> -1, gap |-> -1, dcs |-> <<>>]

NextRel(h, t, ev) ==
    IF ev.pressed
    THEN [h EXCEPT !.pressedAt = t]
    ELSE IF ev.released
    THEN LET g == IF h.at >= 0 THEN t - h.at ELSE -1
         IN [pressedAt |-> h.pressedAt,
             at |-> t,
             gap |-> g,
             dcs |-> IF g >= 0 /\ g < DOUBLE_CLICK_TIME
                     THEN IF Len(h.dcs) < 3
                          THEN Append(h.dcs, ev.double_click)
                          ELSE h.dcs
                     ELSE <<ev.double_click>>]
    ELSE h

(***************************************************************************)
(* wifi_module.py                                                          *)
(***************************************************************************)
MAX_RETRY_ATTEMPTS == 5
BASE_RETRY_DELAY == 3000
MAX_RETRY_DELAY == 60000

\* module globals after import; wifi.radio is enabled and not associated
WifiInit ==
    [connected |-> FALSE,
     offline_mode |-> FALSE,
     last_connection_attempt |-> 0,
     connection_attempts |-> 0,
     radio_enabled |-> TRUE,
     link |-> FALSE]

NoOp ==
    [name |-> "none", attempted |-> FALSE, ok |-> FALSE, result |-> FALSE,
     attemptNo |-> 0, preOffline |-> FALSE, preUp |-> FALSE, preEarly |-> FALSE]

Min(a, b) == IF a <= b THEN a ELSE b

RECURSIVE Pow2(_)
Pow2(n) == IF n <= 0 THEN 1 ELSE 2 * Pow2(n - 1)

\* the delay doubles once more than in the code
BackoffDelayShifted(n) == Min(BASE_RETRY_DELAY * Pow2(n), MAX_RETRY_DELAY)

\* the delay without its maximum
BackoffDelayUncapped(n) == BASE_RETRY_DELAY * Pow2(n - 1)

\* backoff_delay of ensure_wifi_connected for _connection_attempts = n
BackoffDelay(n) == Min(BASE_RETRY_DELAY * Pow2(n - 1), MAX_RETRY_DELAY)

\* offline mode does not stop a call
OfflineShortcutNever(w, force_retry) == FALSE

\* ensure_wifi_connected returns at once in offline mode unless forced
OfflineShortcut(w, force_retry) == w.offline_mode /\ ~force_retry

\* ensure_wifi_connected turns the radio on if it is off
RadioOn(w) ==
    IF ~w.radio_enabled
    THEN [w EXCEPT !.radio_enabled = TRUE, !.connected = FALSE]
    ELSE w

\* _connected and wifi.radio.ipv4_address
AlreadyConnected(w) == w.connected /\ w.link

\* the backoff test also applies to a forced call
TooSoonForced(w, t, force_retry) ==
    /\ w.connection_attempts > 0
    /\ t - w.last_connection_attempt < BackoffDelay(w.connection_attempts)

\* the backoff test of ensure_wifi_connected
TooSoon(w, t, force_retry) ==
    /\ w.connection_attempts > 0
    /\ ~force_retry
    /\ t - w.last_connection_attempt < BackoffDelay(w.connection_attempts)

\* the attempt tracking before wifi.radio.connect
TrackAttempt(w, t) ==
    [w EXCEPT !.last_connection_attempt = t,
              !.connection_attempts = w.connection_attempts + 1]

\* a successful connect that keeps the attempt counter
ConnectSucceededKeepCount(w) ==
    [w EXCEPT !.connected = TRUE, !.offline_mode = FALSE, !.link = TRUE]

\* wifi.radio.connect returned
ConnectSucceeded(w) ==
    [w EXCEPT !.connected = TRUE,
              !.offline_mode = FALSE,
              !.connection_attempts = 0,
              !.link = TRUE]

\* offline mode only after more than the maximum of attempts
ReachedMaxAttemptsStrict(n) == n > MAX_RETRY_ATTEMPTS

\* the test for offline mode after a failed attempt
ReachedMaxAttempts(n) == n >= MAX_RETRY_ATTEMPTS

\* wifi.radio.connect raised
ConnectFailed(w) ==
    [w EXCEPT !.offline_mode =
                  w.offline_mode \/ ReachedMaxAttempts(w.connection_attempts),
              !.link = FALSE]

\* ensure_wifi_connected(force_retry) at time t; ok is the outcome of
\* wifi.radio.connect if it gets called
EnsureWifiConnected(w, t, force_retry, ok) ==
    IF OfflineShortcut(w, force_retry)
    THEN [w |-> w, attempted |-> FALSE, attemptNo |-> 0, result |-> FALSE]
    ELSE LET w1 == RadioOn(w)
         IN IF AlreadyConnected(w1)
            THEN [w |-> w1, attempted |-> FALSE, attemptNo |-> 0, result |-> TRUE]
            ELSE IF TooSoon(w1, t, force_retry)
            THEN [w |-> w1, attempted |-> FALSE, attemptNo |-> 0, result |-> FALSE]
            ELSE LET w2 == TrackAttempt(w1, t)
                 IN [w |-> IF ok THEN ConnectSucceeded(w2) ELSE ConnectFailed(w2),
                     attempted |-> TRUE,
                     attemptNo |-> w2.connection_attempts,
                     result |-> ok]

\* retry_connection() at time t
RetryConnection(w, t, ok) ==
    EnsureWifiConnected([w EXCEPT !.offline_mode = FALSE], t, TRUE, ok)

DisconnectResetsCount(w) ==
    [w EXCEPT !.connected = FALSE,
              !.link = IF w.radio_enabled /\ w.connected THEN FALSE ELSE @,
              !.connection_attempts = 0]

\* disconnect(): the radio is told to disconnect only when it is enabled and
\* the module believes it is connected
Disconnect(w) ==
    [w EXCEPT !.connected = FALSE,
              !.link = IF w.radio_enabled /\ w.connected THEN FALSE ELSE @]

\* disable_radio()
DisableRadio(w) ==
    [w EXCEPT !.connected = FALSE, !.link = FALSE, !.radio_enabled = FALSE]

\* enable_radio()
EnableRadio(w) == [w EXCEPT !.radio_enabled = TRUE]

ResetKeepsOffline(w) ==
    [w EXCEPT !.connected = FALSE, !.connection_attempts = 0]

\* reset_connection_state()
ResetConnectionState(w) ==
    [w EXCEPT !.connected = FALSE, !.offline_mode = FALSE, !.connection_attempts = 0]

\* is_connected()
IsConnected(w) == w.connected /\ w.radio_enabled /\ w.link

\* is_offline_mode()
IsOfflineMode(w) == w.offline_mode

\* what a call found before it ran
OpRecord(name, w, r, ok) ==
    [name |-> name,
     attempted |-> r.attempted,
     ok |-> r.attempted /\ ok,
     result |-> r.result,
     attemptNo |-> r.attemptNo,
     preOffline |-> w.offline_mode,
     preUp |-> AlreadyConnected(RadioOn(w)),
     preEarly |-> /\ w.connection_attempts > 0
                  /\ now - w.last_connection_attempt
                         < BackoffDelay(w.connection_attempts)]

NextStreak(r, ok) ==
    IF r.attempted THEN (IF ok THEN 0 ELSE failStreak + 1) ELSE failStreak

(***************************************************************************)
(* Actions of the connectivity manager                                     *)
(***************************************************************************)
\* time passes between two calls
WifiTick(dt) ==
    /\ now + dt <= MaxWifiTime
    /\ now' = now + dt
    /\ op' = NoOp
    /\ UNCHANGED <<wifi, failStreak, scenario, buttonVars, sys, fetchVars, mainVars, configVars>>

\* a caller (startup, get_socket_pool, get_ssl_context, sync_time) calls
\* ensure_wifi_connected()
DoEnsure(ok) ==
    LET r == EnsureWifiConnected(wifi, now, FALSE, ok)
    IN /\ wifi' = r.w
       /\ op' = OpRecord("ensure", wifi, r, ok)
       /\ failStreak' = NextStreak(r, ok)
       /\ scenario' = (scenario /\ ~(r.attempted /\ ok))
       /\ UNCHANGED <<now, buttonVars, sys, fetchVars, mainVars, configVars>>

\* the main loop calls retry_connection()
DoRetry(ok) ==
    /\ wifi.connection_attempts < MaxAttemptCount
    /\ LET r == RetryConnection(wifi, now, ok)
       IN /\ wifi' = r.w
          /\ op' = OpRecord("retry", wifi, r, ok)
          /\ failStreak' = NextStreak(r, ok)
    /\ scenario' = FALSE
    /\ UNCHANGED <<now, buttonVars, sys, fetchVars, mainVars, configVars>>

DoReset ==
    /\ wifi' = ResetConnectionState(wifi)
    /\ op' = [NoOp EXCEPT !.name = "reset",
                          !.preOffline = wifi.offline_mode,
                          !.preUp = wifi.connected,
                          !.attemptNo = wifi.connection_attempts]
    /\ failStreak' = 0
    /\ scenario' = FALSE
    /\ UNCHANGED <<now, buttonVars, sys, fetchVars, mainVars, configVars>>

DoDisconnect ==
    /\ wifi' = Disconnect(wifi)
    /\ op' = [NoOp EXCEPT !.name = "disconnect"]
    /\ scenario' = FALSE
    /\ UNCHANGED <<now, failStreak, buttonVars, sys, fetchVars, mainVars, configVars>>

DoDisableRadio ==
    /\ wifi' = DisableRadio(wifi)
    /\ op' = [NoOp EXCEPT !.name = "disable"]
    /\ scenario' = FALSE
    /\ UNCHANGED <<now, failStreak, buttonVars, sys, fetchVars, mainVars, configVars>>

DoEnableRadio ==
    /\ wifi' = EnableRadio(wifi)
    /\ op' = [NoOp EXCEPT !.name = "enable"]
    /\ scenario' = FALSE
    /\ UNCHANGED <<now, failStreak, buttonVars, sys, fetchVars, mainVars, configVars>>

\* the radio loses its address (access point gone, lease lost)
LinkDown ==
    /\ wifi.link
    /\ wifi' = [wifi EXCEPT !.link = FALSE]
    /\ op' = NoOp
    /\ UNCHANGED <<now, failStreak, scenario, buttonVars, sys, fetchVars, mainVars, configVars>>

\* the enabled radio gets an address without a call of this module (the
\* firmware rejoins the network it knows)
LinkUp ==
    /\ wifi.radio_enabled
    /\ ~wifi.link
    /\ wifi' = [wifi EXCEPT !.link = TRUE]
    /\ op' = NoOp
    /\ UNCHANGED <<now, failStreak, scenario, buttonVars, sys, fetchVars, mainVars, configVars>>

(***************************************************************************)
(* The globals of the other modules, as one record `sys`:                  *)
(*   sys.wifi     wifi_module (the record of WifiInit)                     *)
(*   sys.ntp      ntp_module: _ntp, _last_sync_time, _rtc_synced           *)
(*   sys.weather  weather_module: _weather_data, _last_weather_fetch       *)
(*   sys.tm       time_module: _last_sync_attempt                          *)
(*   sys.oled     oled: _current_mode, _next_rotation,                     *)
(*                _current_rotation_index                                  *)
(*   sys.code     code.py: the state variables of lines 22-33              *)
(*   sys.btn      buttons.py: mic_button, skip_button, back_button         *)
(*   sys.rot      rotary.py: last_clk                                      *)
(*   sys.cfg      the configuration: SETTINGS_MODE in memory and the API   *)
(*                key                                                      *)
(***************************************************************************)
\* oled.DisplayMode
TIME == "time"
STATUS == "status"
MIC == "mic"
WEATHER == "weather"

\* code.py, constants
SHOW_MIC_STATE_DURATION == 2000
SHOW_STATUS_DURATION == 3000
WIFI_RETRY_INTERVAL == 300000
CLOCK_UPDATE_INTERVAL == 500
SETTINGS_INFO_ROTATE_INTERVAL == 5000
NumSettingsInfoScreens == 6

\* config_manager.DEFAULT_CONFIG
NTP_SYNC_INTERVAL == 86400000
NTP_SYNC_RETRY_INTERVAL == 300000
WEATHER_FETCH_INTERVAL == 1800000
DISPLAY_ROTATION_INTERVAL == 10000

\* where the OpenWeather API key is configured: nowhere, in settings.toml
\* (os.getenv) or in settings.json (config)
ApiKeys == {"none", "env", "config"}

\* a response of the weather API: status 200 with a body, another status, or
\* an exception of the request
NoData == "none"
Bodies == {"good", "nokeys", "badtemp"}
Responses == Bodies \cup {"http_error", "exception"}

CodeInit ==
    [mic_on |-> TRUE,
     show_mic_state_until |-> 0,
     show_status_until |-> 0,
     last_wifi_retry |-> 0,
     last_clock_update |-> 0,
     last_weather_fetch |-> 0,
     weather_api_configured |-> FALSE,
     settings_mode |-> FALSE,
     last_displayed_time |-> -1,
     settings_info_last_change |-> 0,
     settings_info_index |-> 0]

\* buttons.py: the order in which action_table is filled
InsertionOrder == <<"mic", "skip", "back">>

\* the modules as imported at time 0 with the configuration cfg
SysInit(cfg) ==
    [wifi |-> WifiInit,
     ntp |-> [client |-> FALSE, last_sync_time |-> 0, rtc_synced |-> FALSE],
     weather |-> [data |-> NoData, last_fetch |-> 0],
     tm |-> [last_sync_attempt |-> 0],
     oled |-> [current_mode |-> TIME, next_rotation |-> 0,
               current_rotation_index |-> 0],
     code |-> CodeInit,
     btn |-> [mic |-> ButtonInit(0), skip |-> ButtonInit(0), back |-> ButtonInit(0),
              order |-> InsertionOrder],
     rot |-> [last_clk |-> TRUE],
     cfg |-> cfg]

NoConfig == [SETTINGS_MODE |-> FALSE, api_key |-> "none"]

\* oled.display_status / display_mic_state / display_clock / display_weather
Display(s, mode) == [s EXCEPT !.oled.current_mode = mode]

\* code.wifi_status_callback(message) at time t
WifiStatusCallback(s, t) ==
    Display([s EXCEPT !.code.show_status_until = t + SHOW_STATUS_DURATION], STATUS)

\* wifi_module.ensure_wifi_connected(force_retry) with the callback of code.py
\* registered: every attempt notifies ("Connecting ...", then its outcome)
SysEnsure(s, t, force_retry, ok) ==
    LET Notify(r) ==
            [s |-> IF r.attempted
                   THEN WifiStatusCallback([s EXCEPT !.wifi = r.w], t)
                   ELSE [s EXCEPT !.wifi = r.w],
             r |-> r.result,
             attempted |-> r.attempted]
    IN Notify(EnsureWifiConnected(s.wifi, t, force_retry, ok))

\* wifi_module.retry_connection()
SysRetry(s, t, ok) ==
    SysEnsure([s EXCEPT !.wifi.offline_mode = FALSE], t, TRUE, ok)

\* wifi_module.get_socket_pool(): the pool, or None
GetSocketPool(s, t, ok) == SysEnsure(s, t, FALSE, ok)

(***************************************************************************)
(* ntp_module.py                                                           *)
(***************************************************************************)
\* get_ntp_client(): the cached client, or a new one on the socket pool
GetNtpClient(s, t, o) ==
    IF s.ntp.client
    THEN [s |-> s, r |-> TRUE]
    ELSE IF ~IsConnected(s.wifi)
    THEN [s |-> s, r |-> FALSE]
    ELSE LET OnPool(p) ==
                 IF ~p.r
                 THEN [s |-> p.s, r |-> FALSE]
                 ELSE [s |-> [p.s EXCEPT !.ntp.client = TRUE], r |-> TRUE]
         IN OnPool(GetSocketPool(s, t, o.connect))

\* the test of sync_time for "too soon since last sync"
SyncIsFresh(s, t, force) ==
    /\ ~force
    /\ s.ntp.rtc_synced
    /\ t - s.ntp.last_sync_time < NTP_SYNC_INTERVAL

\* a failed query takes the synchronisation back
NtpQueryForgets(s, t, o) ==
    [s |-> [s EXCEPT !.ntp.last_sync_time = t, !.ntp.rtc_synced = o.ntp],
     r |-> o.ntp,
     queried |-> TRUE]

\* lines 97-112 of sync_time: _last_sync_time is written, then the server is
\* queried
NtpQuery(s, t, o) ==
    [s |-> [s EXCEPT !.ntp.last_sync_time = t,
                     !.ntp.rtc_synced = @ \/ o.ntp],
     r |-> o.ntp,
     queried |-> TRUE]

\* sync_time(force) at time t
SyncTime(s, t, force, o) ==
    IF SyncIsFresh(s, t, force)
    THEN [s |-> s, r |-> TRUE, queried |-> FALSE]
    ELSE LET WithClient(c) ==
                 IF ~c.r
                 THEN [s |-> c.s, r |-> FALSE, queried |-> FALSE]
                 ELSE NtpQuery(c.s, t, o)
             Connected(s1) ==
                 IF ~IsConnected(s1.wifi)
                 THEN [s |-> s1, r |-> FALSE, queried |-> FALSE]
                 ELSE WithClient(GetNtpClient(s1, t, o))
         IN Connected(IF ~IsConnected(s.wifi)
                      THEN SysEnsure(s, t, FALSE, o.connect).s
                      ELSE s)

(***************************************************************************)
(* weather_module.py                                                       *)
(***************************************************************************)
\* get_weather_api_key() is not empty
HasApiKey(s) == s.cfg.api_key # "none"

\* a response other than 200 empties the cache
StoreResponseOrClear(s, t, resp) ==
    IF resp \in Bodies
    THEN [s |-> [s EXCEPT !.weather.data = resp, !.weather.last_fetch = t],
          r |-> resp]
    ELSE [s |-> [s EXCEPT !.weather.data = NoData], r |-> NoData]

\* lines 87-103 of fetch_weather: the cache is written on status 200 only
StoreResponse(s, t, resp) ==
    IF resp \in Bodies
    THEN [s |-> [s EXCEPT !.weather.data = resp, !.weather.last_fetch = t],
          r |-> resp]
    ELSE [s |-> s, r |-> NoData]

\* fetch_weather() at time t: the data, or None
FetchWeather(s, t, o) ==
    IF ~IsConnected(s.wifi)
    THEN [s |-> s, r |-> NoData]
    ELSE IF ~HasApiKey(s)
    THEN [s |-> s, r |-> NoData]
    ELSE LET OnPool(p) ==
                 IF ~p.r
                 THEN [s |-> p.s, r |-> NoData]
                 ELSE StoreResponse(p.s, t, o.resp)
         IN OnPool(GetSocketPool(s, t, o.connect))

\* the cache is fresh one instant longer
ShouldFetchLate(s, t, force_refresh) ==
    \/ force_refresh
    \/ s.weather.data = NoData
    \/ t - s.weather.last_fetch > WEATHER_FETCH_INTERVAL

\* the test of get_weather_data
ShouldFetch(s, t, force_refresh) ==
    \/ force_refresh
    \/ s.weather.data = NoData
    \/ t - s.weather.last_fetch >= WEATHER_FETCH_INTERVAL

\* get_weather_data(force_refresh) at time t
GetWeatherData(s, t, force_refresh, o) ==
    IF ShouldFetch(s, t, force_refresh)
    THEN FetchWeather(s, t, o)
    ELSE [s |-> s, r |-> s.weather.data]

(***************************************************************************)
(* Actions of the time-sync and weather modules                            *)
(***************************************************************************)
NoFop ==
    [name |-> "none", force |-> FALSE, fetched |-> FALSE, stored |-> FALSE,
     cached |-> FALSE, age |-> "none", queried |-> FALSE, ok |-> FALSE,
     synced |-> FALSE]

\* the age of the weather cache at time t against the fetch interval
CacheAge(s, t) ==
    IF t - s.weather.last_fetch < WEATHER_FETCH_INTERVAL THEN "before"
    ELSE IF t - s.weather.last_fetch = WEATHER_FETCH_INTERVAL THEN "at"
    ELSE "after"

\* time passes between two calls
FetchTick(dt) ==
    /\ fsteps < MaxFetchSteps
    /\ fsteps' = fsteps + 1
    /\ now' = now + dt
    /\ fop' = NoFop
    /\ UNCHANGED <<sys, buttonVars, wifiVars, mainVars, configVars>>

\* a caller (startup, get_local_time, get_current_datetime) calls
\* sync_time(force)
DoSyncTime(force, connect, ntp) ==
    LET o == [connect |-> connect, ntp |-> ntp, resp |-> "exception"]
        r == SyncTime(sys, now, force, o)
    IN /\ sys' = r.s
       /\ fop' = [NoFop EXCEPT !.name = "sync", !.force = force,
                               !.queried = r.queried, !.ok = r.r,
                               !.synced = sys.ntp.rtc_synced]
       /\ UNCHANGED <<now, fsteps, buttonVars, wifiVars, mainVars, configVars>>

\* a caller (format_weather_for_display) calls get_weather_data(force_refresh)
DoGetWeatherData(force_refresh, resp) ==
    LET o == [connect |-> FALSE, ntp |-> FALSE, resp |-> resp]
        r == GetWeatherData(sys, now, force_refresh, o)
    IN /\ sys' = r.s
       /\ fop' = [NoFop EXCEPT !.name = "get", !.force = force_refresh,
                               !.fetched = ShouldFetch(sys, now, force_refresh),
                               !.stored = (r.s.weather # sys.weather),
                               !.cached = (sys.weather.data # NoData),
                               !.age = CacheAge(sys, now),
                               !.ok = (r.r # NoData)]
       /\ UNCHANGED <<now, fsteps, buttonVars, wifiVars, mainVars, configVars>>

\* a caller (startup, the main loop) calls fetch_weather()
DoFetchWeather(resp) ==
    LET o == [connect |-> FALSE, ntp |-> FALSE, resp |-> resp]
        r == FetchWeather(sys, now, o)
    IN /\ sys' = r.s
       /\ fop' = [NoFop EXCEPT !.name = "fetch", !.fetched = TRUE,
                               !.stored = (r.s.weather # sys.weather),
                               !.cached = (sys.weather.data # NoData),
                               !.age = CacheAge(sys, now),
                               !.ok = (r.r # NoData)]
       /\ UNCHANGED <<now, fsteps, buttonVars, wifiVars, mainVars, configVars>>

\* a caller (startup, get_socket_pool) calls ensure_wifi_connected()
DoSysEnsure(ok) ==
    /\ sys' = SysEnsure(sys, now, FALSE, ok).s
    /\ fop' = [NoFop EXCEPT !.name = "ensure"]
    /\ UNCHANGED <<now, fsteps, buttonVars, wifiVars, mainVars, configVars>>

\* reset_connection_state()
DoSysReset ==
    /\ sys' = [sys EXCEPT !.wifi = ResetConnectionState(@)]
    /\ fop' = [NoFop EXCEPT !.name = "reset"]
    /\ UNCHANGED <<now, fsteps, buttonVars, wifiVars, mainVars, configVars>>

\* the radio loses or gets its address without a call
SysLink(up) ==
    /\ sys.wifi.radio_enabled
    /\ sys.wifi.link # up
    /\ sys' = [sys EXCEPT !.wifi.link = up]
    /\ fop' = [NoFop EXCEPT !.name = "link"]
    /\ UNCHANGED <<now, fsteps, buttonVars, wifiVars, mainVars, configVars>>

(***************************************************************************)
(* time_module.py                                                          *)
(***************************************************************************)
\* get_local_time() at time t, as called by format_local_time(): a sync is
\* tried when the last try is more than NTP_SYNC_RETRY_INTERVAL ago
GetLocalTime(s, t, o) ==
    IF t - s.tm.last_sync_attempt > NTP_SYNC_RETRY_INTERVAL
    THEN SyncTime([s EXCEPT !.tm.last_sync_attempt = t], t, FALSE, o).s
    ELSE s

\* the string of format_local_time() at time t changes with the second of
\* the clock
TimeString(t) == t \div 1000

(***************************************************************************)
(* rotary.py and the HID reports                                           *)
(***************************************************************************)
\* the pause of check_rotary after a PLAY_PAUSE report
ROTARY_SWITCH_SLEEP == 300

\* check_rotary() on the pins as one pass reads them (clk.value, dt.value,
\* whether the switch is pressed): the new last_clk, the reports sent and
\* the time slept
CheckRotary(rot, pins) ==
    LET turned == pins.clk # rot.last_clk
        turn == IF ~turned THEN <<>>
                ELSE IF pins.dt # pins.clk THEN <<"VOLUME_INCREMENT">>
                ELSE <<"VOLUME_DECREMENT">>
    IN [rot |-> [last_clk |-> pins.clk],
        hid |-> turn \o (IF pins.sw THEN <<"PLAY_PAUSE">> ELSE <<>>),
        slept |-> IF pins.sw THEN ROTARY_SWITCH_SLEEP ELSE 0]

(***************************************************************************)
(* buttons.py: action_table and check_buttons                              *)
(***************************************************************************)
\* None, as a binding of action_table and as the action of check_buttons
NoAction == "none"

\* action_table: the binding of every event of every button
action_table ==
    [mic |-> [pressed |-> NoAction, released |-> "toggle_mic",
              long_press |-> NoAction, double_click |-> NoAction],
     skip |-> [pressed |-> NoAction, released |-> "skip",
               long_press |-> "fast_forward", double_click |-> NoAction],
     back |-> [pressed |-> NoAction, released |-> "back",
               long_press |-> "rewind", double_click |-> NoAction]]

\* the orders in which action_table.items() can yield the buttons: the
\* dict of the interpreter is a hash table keyed by the Button objects
ButtonOrders ==
    {o \in [1..3 -> DOMAIN action_table] : {o[i] : i \in 1..3} = DOMAIN action_table}

\* the released binding is looked at before the long_press binding
ButtonActionReleasedFirst(name, ev) ==
    LET actions == action_table[name]
    IN IF ev.released /\ actions.released # NoAction THEN actions.released
       ELSE IF ev.long_press /\ actions.long_press # NoAction
       THEN actions.long_press
       ELSE IF ev.double_click /\ actions.double_click # NoAction
       THEN actions.double_click
       ELSE IF ev.pressed /\ actions.pressed # NoAction THEN actions.pressed
       ELSE NoAction

\* lines 150-159: the action of one button for the events of its update()
ButtonAction(name, ev) ==
    LET actions == action_table[name]
    IN IF ev.long_press /\ actions.long_press # NoAction THEN actions.long_press
       ELSE IF ev.double_click /\ actions.double_click # NoAction
       THEN actions.double_click
       ELSE IF ev.released /\ actions.released # NoAction THEN actions.released
       ELSE IF ev.pressed /\ actions.pressed # NoAction THEN actions.pressed
       ELSE NoAction

\* the toggle is also handed to the caller as the action
SurfacedActionWithToggle(order, acts) ==
    LET hits == {i \in 1..Len(order) : acts[order[i]] # NoAction}
    IN IF hits = {}
       THEN NoAction
       ELSE acts[order[CHOOSE i \in hits : \A j \in hits : j <= i]]

\* lines 161-168: the action that the loop over the buttons ends with: every
\* action other than toggle_mic overwrites the one of an earlier button
SurfacedAction(order, acts) ==
    LET hits == {i \in 1..Len(order) : acts[order[i]] \notin {NoAction, "toggle_mic"}}
    IN IF hits = {}
       THEN NoAction
       ELSE acts[order[CHOOSE i \in hits : \A j \in hits : j <= i]]

\* check_buttons(mic_on, toggle_mic_hotkey) at time t with the raw levels
\* lv.mic, lv.skip, lv.back: every button is updated once, in the order
\* btn.order; the result carries the events and the action of every button
\* and the number of calls of toggle_mic_hotkey
CheckButtons(btn, mic_on, t, lv) ==
    LET Collect(u, acts, toggles) ==
            [btn |-> [mic |-> u.mic.btn, skip |-> u.skip.btn, back |-> u.back.btn,
                      order |-> btn.order],
             ev |-> [n \in DOMAIN action_table |-> u[n].ev],
             acts |-> acts,
             mic_on |-> IF toggles % 2 = 1 THEN ~mic_on ELSE mic_on,
             hotkeys |-> toggles,
             toggled |-> toggles % 2 = 1,
             action |-> SurfacedAction(btn.order, acts)]
        Selected(u, acts) ==
            Collect(u, acts,
                    Cardinality({n \in DOMAIN acts : acts[n] = "toggle_mic"}))
        Updated(u) ==
            Selected(u, [n \in DOMAIN action_table |-> ButtonAction(n, u[n].ev)])
    IN Updated([n \in DOMAIN action_table |-> ButtonUpdate(btn[n], t, lv[n])])

\* gpio.toggle_mic_hotkey, the callback that the normal branch hands to
\* check_buttons: the reports of n calls
ToggleMicHotkey(n) == [i \in 1..n |-> "MIC_SHORTCUT"]

\* the settings branch hands the hotkey to check_buttons as well
NoHotkeySends(n) == [i \in 1..n |-> "MIC_SHORTCUT"]

\* lambda: None, the callback that the settings branch hands to
\* check_buttons: the reports of n calls
NoHotkey(n) == <<>>

\* the report of the main loop for an action of check_buttons
ActionReport(action) ==
    CASE action = "skip" -> <<"SCAN_NEXT_TRACK">>
      [] action = "back" -> <<"SCAN_PREVIOUS_TRACK">>
      [] action = "fast_forward" -> <<"FAST_FORWARD">>
      [] action = "rewind" -> <<"REWIND">>
      [] OTHER -> <<>>

(***************************************************************************)
(* oled.handle_display_rotation and the display stage of the main loop     *)
(***************************************************************************)
\* config: DISPLAY_ROTATION_ENABLED and WEATHER_ENABLED of DEFAULT_CONFIG
DISPLAY_ROTATION_ENABLED == TRUE
WEATHER_ENABLED == TRUE
NTP_SYNC_ON_STARTUP == TRUE

\* the rotation list of handle_display_rotation: TIME, and WEATHER if the
\* configuration (not the environment) has an API key
RotationItems(s) ==
    IF WEATHER_ENABLED /\ s.cfg.api_key = "config"
    THEN <<TIME, WEATHER>>
    ELSE <<TIME>>

\* format_weather_for_display() on the data that get_weather_data returned:
\* "lines", "none" for (None, None), or "raise" when formatting the
\* temperature raises an exception that the function does not catch
FormatWeather(data) ==
    CASE data = "good" -> "lines"
      [] data = "badtemp" -> "raise"
      [] OTHER -> "none"

\* the test of handle_display_rotation for "showing a temporary display"
IsTemporary(mode) == mode \in {STATUS, MIC}

\* the result of the display stage when no rotation step is made
NoTarget == "none"
NotRotated(s) == [s |-> s, rotated |-> FALSE, raised |-> FALSE, target |-> NoTarget]

\* handle_display_rotation() at time t: the new state, whether the display
\* was rotated, whether the function raised (its exception handler reads
\* the local name time_module before it is bound), and the mode that the
\* rotation index was moved to
HandleDisplayRotation(s, t, o) ==
    IF ~DISPLAY_ROTATION_ENABLED \/ t < s.oled.next_rotation
    THEN NotRotated(s)
    ELSE LET ShowWeather(w, f) ==
                 [s |-> IF f = "lines" THEN Display(w.s, WEATHER) ELSE w.s,
                  rotated |-> f = "lines",
                  raised |-> f = "raise",
                  target |-> WEATHER]
             Weather(w) == ShowWeather(w, FormatWeather(w.r))
             Rotate(s2, next_mode) ==
                 IF next_mode = WEATHER
                 THEN Weather(GetWeatherData(s2, t, FALSE, o))
                 ELSE [s |-> Display(GetLocalTime(s2, t, o), TIME),
                       rotated |-> TRUE,
                       raised |-> FALSE,
                       target |-> TIME]
             Advance(s1, items, idx) ==
                 IF IsTemporary(s1.oled.current_mode) \/ Len(items) <= 1
                 THEN NotRotated(s1)
                 ELSE Rotate([s1 EXCEPT !.oled.current_rotation_index = idx],
                             items[idx + 1])
         IN Advance([s EXCEPT !.oled.next_rotation = t + DISPLAY_ROTATION_INTERVAL],
                    RotationItems(s),
                    (s.oled.current_rotation_index + 1) % Len(RotationItems(s)))

\* lines 261-268 of the main loop: the clock is redrawn when its string
\* changed
UpdateClock(s, t0, t, o) ==
    LET Redraw(s1) ==
            IF TimeString(t) # s1.code.last_displayed_time
            THEN Display([s1 EXCEPT !.code.last_displayed_time = TimeString(t)],
                         TIME)
            ELSE s1
    IN Redraw(GetLocalTime([s EXCEPT !.code.last_clock_update = t0], t, o))

\* the first test of the display priority: the mic window is open
MicWindowOpen(s, t0) == t0 < s.code.show_mic_state_until

\* the second test of the display priority: the status window is open
StatusWindowOpen(s, t0) == t0 < s.code.show_status_until

\* lines 248-268 of the main loop, with now_monotonic = t0 and
\* time.monotonic() = t
NormalDisplay(s, t0, t, o) ==
    IF MicWindowOpen(s, t0) \/ StatusWindowOpen(s, t0)
    THEN NotRotated(s)
    ELSE LET Clock(r) ==
                 IF /\ ~r.raised
                    /\ ~r.rotated
                    /\ r.s.oled.current_mode = TIME
                    /\ t0 - r.s.code.last_clock_update > CLOCK_UPDATE_INTERVAL
                 THEN [r EXCEPT !.s = UpdateClock(r.s, t0, t, o)]
                 ELSE r
         IN Clock(HandleDisplayRotation(s, t, o))

\* the index of the next settings screen
NextSettingsInfoIndex(i) == (i + 1) % NumSettingsInfoScreens

\* the screen changes already when the interval has just passed
SettingsInfoDueEarly(s, t) ==
    t - s.code.settings_info_last_change >= SETTINGS_INFO_ROTATE_INTERVAL - 1000

\* the test of display_settings_info for the next screen
SettingsInfoDue(s, t) ==
    t - s.code.settings_info_last_change > SETTINGS_INFO_ROTATE_INTERVAL

\* display_settings_info() at time t
DisplaySettingsInfo(s, t) ==
    Display(IF SettingsInfoDue(s, t)
            THEN [s EXCEPT !.code.settings_info_last_change = t,
                           !.code.settings_info_index = NextSettingsInfoIndex(@)]
            ELSE s,
            STATUS)

\* lines 243-268 of the main loop
DisplayStage(s, t0, t, o) ==
    IF s.code.settings_mode
    THEN NotRotated(DisplaySettingsInfo(s, t))
    ELSE NormalDisplay(s, t0, t, o)

(***************************************************************************)
(* code.py: the startup sequence and one pass of the main loop             *)
(***************************************************************************)
SETTINGS_STARTUP_SLEEP == 1000
WIFI_FAILED_SLEEP == 2000
EXIT_SETTINGS_SLEEP == 1000

\* config.set_value("SETTINGS_MODE", v)
SetSettingsMode(s, v) == [s EXCEPT !.cfg.SETTINGS_MODE = v]

\* lines 73-89: the settings flag of the configuration, or the button test,
\* which negates is_pressed() of both buttons
StartInSettingsMode(s, lv) ==
    s.cfg.SETTINGS_MODE \/ (~lv.skip /\ ~lv.back)

\* lines 99-112: the connection at startup, at time t; the result carries
\* wifi_connected and the time after the pause
StartupWifi(s, t, o) ==
    LET Report(r) ==
            IF r.r
            THEN [s |-> r.s, t |-> t, wifi_connected |-> TRUE]
            ELSE [s |-> Display([r.s EXCEPT !.code.show_status_until =
                                                t + SHOW_STATUS_DURATION], STATUS),
                  t |-> t + WIFI_FAILED_SLEEP,
                  wifi_connected |-> FALSE]
    IN Report(SysEnsure(s, t, FALSE, o.connect))

\* lines 114-132: the time sync at startup
StartupNtp(s, t, o) ==
    IF NTP_SYNC_ON_STARTUP
    THEN Display([SyncTime(Display(s, STATUS), t, TRUE, o).s
                     EXCEPT !.code.show_status_until = t + SHOW_STATUS_DURATION],
                 STATUS)
    ELSE s

\* lines 134-162: the first weather fetch; a body without the expected keys
\* raises in line 149 and the status of lines 155-156 is skipped
StartupWeather(s, t, o) ==
    IF WEATHER_ENABLED /\ HasApiKey(s)
    THEN LET Report(f) ==
                 IF f.r = "nokeys"
                 THEN f.s
                 ELSE Display([f.s EXCEPT !.code.show_status_until =
                                              t + SHOW_STATUS_DURATION], STATUS)
         IN Report(FetchWeather(
                Display([s EXCEPT !.code.weather_api_configured = TRUE], STATUS),
                t, o))
    ELSE s

\* the startup sequence, lines 70-166, begun at time t0 with the raw levels
\* lv of the buttons; the result carries the time at which the loop starts
StartupSequence(s, t0, lv, o) ==
    LET InitialClock(s2, t2) ==
            [s |-> Display(GetLocalTime(s2, t2, o), TIME), t |-> t2]
        Services(w) ==
            InitialClock(IF w.wifi_connected
                         THEN StartupWeather(StartupNtp(w.s, w.t, o), w.t, o)
                         ELSE w.s,
                         w.t + STARTUP_SLEEP)
        Begin(settings, s1, t1) ==
            Services(IF settings
                     THEN [s |-> s1, t |-> t1, wifi_connected |-> FALSE]
                     ELSE StartupWifi(s1, t1, o))
        Mode(settings) ==
            Begin(settings,
                  Display([(IF settings THEN SetSettingsMode(s, TRUE) ELSE s)
                              EXCEPT !.code.settings_mode = settings], STATUS),
                  IF settings THEN t0 + SETTINGS_STARTUP_SLEEP ELSE t0)
    IN Mode(StartInSettingsMode(s, lv))

\* lines 174-190: the settings branch at time t0; on the exit combination
\* the pass sleeps and draws the clock
SettingsBranch(s, t0, lv, o) ==
    LET Checked(cb, s1, t1) ==
            IF /\ cb.action \in {"rewind", "fast_forward"}
               /\ ~lv.skip
               /\ ~lv.back
            THEN [s |-> Display(GetLocalTime(
                            Display([SetSettingsMode(s1, FALSE)
                                        EXCEPT !.code.settings_mode = FALSE],
                                    STATUS),
                            t1, o), TIME),
                  t |-> t1, hid |-> NoHotkey(cb.hotkeys), toggled |-> FALSE,
                  action |-> cb.action, exited |-> TRUE, ev |-> cb.ev,
                  acts |-> cb.acts, hotkeys |-> cb.hotkeys,
                  offline |-> IsOfflineMode(s1.wifi), retried |-> FALSE,
                  fetches |-> 0]
            ELSE [s |-> s1, t |-> t0, hid |-> NoHotkey(cb.hotkeys),
                  toggled |-> FALSE, action |-> cb.action, exited |-> FALSE,
                  ev |-> cb.ev, acts |-> cb.acts, hotkeys |-> cb.hotkeys,
                  offline |-> IsOfflineMode(s1.wifi), retried |-> FALSE,
                  fetches |-> 0]
        Buttons(cb) ==
            Checked(cb, [s EXCEPT !.btn = cb.btn], t0 + EXIT_SETTINGS_SLEEP)
    IN Buttons(CheckButtons(s.btn, s.code.mic_on, t0, lv))

\* the mic toggle keeps the status window
MicFeedbackKeepsStatus(s, t0) ==
    Display([s EXCEPT !.code.show_mic_state_until = t0 + SHOW_MIC_STATE_DURATION],
            MIC)

\* lines 201-205: the feedback for a mic toggle
MicFeedback(s, t0) ==
    Display([s EXCEPT !.code.show_mic_state_until = t0 + SHOW_MIC_STATE_DURATION,
                      !.code.show_status_until = 0],
            MIC)

\* the retry does not wait for offline mode
RetryDueAnyTime(s, t0) == t0 - s.code.last_wifi_retry > WIFI_RETRY_INTERVAL

\* line 218: the test before the periodic retry
RetryDue(s, t0) ==
    IsOfflineMode(s.wifi) /\ t0 - s.code.last_wifi_retry > WIFI_RETRY_INTERVAL

\* lines 217-229: the periodic retry in offline mode; retried:
\* retry_connection was called; fetched: fetch_weather was called
WifiRetry(s, t0, t, o) ==
    IF RetryDue(s, t0)
    THEN LET Refresh(r) ==
                 IF r.r /\ r.s.code.weather_api_configured
                 THEN [s |-> FetchWeather(r.s, t, o).s,
                       retried |-> TRUE, fetched |-> TRUE]
                 ELSE [s |-> r.s, retried |-> TRUE, fetched |-> FALSE]
         IN Refresh(SysRetry([s EXCEPT !.code.last_wifi_retry = t0], t, o.connect))
    ELSE [s |-> s, retried |-> FALSE, fetched |-> FALSE]

\* lines 232-234: the test before the periodic weather update
WeatherDue(s, t0) ==
    /\ IsConnected(s.wifi)
    /\ s.code.weather_api_configured
    /\ t0 - s.code.last_weather_fetch > WEATHER_FETCH_INTERVAL

\* lines 231-241: the periodic weather update; fetched: fetch_weather was
\* called
WeatherUpdate(s, t0, t, o) ==
    IF WeatherDue(s, t0)
    THEN [s |-> FetchWeather([s EXCEPT !.code.last_weather_fetch = t0], t, o).s,
          fetched |-> TRUE]
    ELSE [s |-> s, fetched |-> FALSE]

\* lines 192-241: the normal branch at time t0; offline: is_offline_mode()
\* as line 218 read it; fetches: the calls of fetch_weather in lines 217-241
NormalBranch(s, t0, lv, pins, o) ==
    LET Fetched(rt, t1, cb, s2, wr, wu) ==
            [s |-> wu.s,
             t |-> t1,
             hid |-> rt.hid \o ToggleMicHotkey(cb.hotkeys)
                            \o ActionReport(cb.action),
             toggled |-> cb.toggled, action |-> cb.action, exited |-> FALSE,
             ev |-> cb.ev, acts |-> cb.acts, hotkeys |-> cb.hotkeys,
             offline |-> IsOfflineMode(s2.wifi), retried |-> wr.retried,
             fetches |-> (IF wr.fetched THEN 1 ELSE 0)
                             + (IF wu.fetched THEN 1 ELSE 0)]
        Retried(rt, t1, cb, s2, wr) ==
            Fetched(rt, t1, cb, s2, wr, WeatherUpdate(wr.s, t0, t1, o))
        Network(rt, t1, cb, s2) ==
            Retried(rt, t1, cb, s2, WifiRetry(s2, t0, t1, o))
        Feedback(rt, t1, cb, s1) ==
            Network(rt, t1, cb, IF cb.toggled THEN MicFeedback(s1, t0) ELSE s1)
        Buttons(rt, t1, cb) ==
            Feedback(rt, t1, cb,
                     [s EXCEPT !.rot = rt.rot, !.btn = cb.btn,
                               !.code.mic_on = cb.mic_on])
        Rotary(rt, t1) ==
            Buttons(rt, t1, CheckButtons(s.btn, s.code.mic_on, t1, lv))
        Controls(rt) == Rotary(rt, t0 + rt.slept)
    IN Controls(CheckRotary(s.rot, pins))

\* the display stage runs before the controls and the network stages
LoopPassDisplayFirst(s, t0, lv, pins, o) ==
    LET Pass(d, b) ==
            [s |-> b.s, t |-> b.t, hid |-> b.hid, toggled |-> b.toggled,
             action |-> b.action, exited |-> b.exited, rotated |-> d.rotated,
             raised |-> d.raised, target |-> d.target, ev |-> b.ev,
             acts |-> b.acts, hotkeys |-> b.hotkeys, offline |-> b.offline,
             retried |-> b.retried, fetches |-> b.fetches]
        Branch(d) == Pass(d, IF d.s.code.settings_mode
                             THEN SettingsBranch(d.s, t0, lv, o)
                             ELSE NormalBranch(d.s, t0, lv, pins, o))
    IN Branch(DisplayStage(s, t0, t0, o))

\* one pass of the main loop begun at time t0, lines 171-268: the result
\* carries the time at the end of the pass
LoopPass(s, t0, lv, pins, o) ==
    LET Pass(b, d) ==
            [s |-> d.s, t |-> b.t, hid |-> b.hid, toggled |-> b.toggled,
             action |-> b.action, exited |-> b.exited, rotated |-> d.rotated,
             raised |-> d.raised, target |-> d.target, ev |-> b.ev,
             acts |-> b.acts, hotkeys |-> b.hotkeys, offline |-> b.offline,
             retried |-> b.retried, fetches |-> b.fetches]
        Branch(b) == Pass(b, DisplayStage(b.s, t0, b.t, o))
    IN Branch(IF s.code.settings_mode
              THEN SettingsBranch(s, t0, lv, o)
              ELSE NormalBranch(s, t0, lv, pins, o))

(***************************************************************************)
(* Actions of code.py                                                      *)
(***************************************************************************)
\* what the last pass did: its reports, whether the mic was toggled, whether
\* a status notification arrived, and the windows as its display stage saw
\* them; micQuiet: the mic was toggled and no notification arrived since;
\* statusAtToggle: a status window was open at that toggle, until
\* clearedUntil; longExpired: the mic window has been over for at least one
\* rotation interval; target: the mode that a rotation step moved the index
\* to; flag: SETTINGS_MODE of the configuration before the step; held: the
\* raw levels of the buttons in the step; ev: the events of the buttons in
\* the pass; started: the time at which the loop was entered; sw: the
\* switch of the encoder was pressed in the pass; acts: the action that
\* check_buttons selected for every button; hotkeys: the number of calls of
\* the hotkey callback by check_buttons; offline: is_offline_mode() when the
\* pass came to the retry test; retried: the pass called retry_connection;
\* retryAt: the start of the last pass that did (-1: none); fetches: the
\* number of calls of fetch_weather by lines 217-241 in the pass; fetchAt:
\* the start of the last pass with such a call (-1: none)
NoLevels == [mic |-> FALSE, skip |-> FALSE, back |-> FALSE]
NoButtonEvents == [n \in DOMAIN action_table |-> NoEvents]
NoButtonActions == [n \in DOMAIN action_table |-> NoAction]
NoTk ==
    [name |-> "none", settings |-> FALSE, toggled |-> FALSE, notified |-> FALSE,
     action |-> NoAction, hid |-> <<>>, exited |-> FALSE, rotated |-> FALSE,
     inMic |-> FALSE, inStatus |-> FALSE, micQuiet |-> FALSE,
     statusAtToggle |-> FALSE, clearedUntil |-> 0, longExpired |-> FALSE,
     advanced |-> FALSE, target |-> NoTarget, flag |-> FALSE, held |-> NoLevels,
     ev |-> NoButtonEvents, started |-> 0, sw |-> FALSE,
     acts |-> NoButtonActions, hotkeys |-> 0, offline |-> FALSE,
     retried |-> FALSE, retryAt |-> -1, fetches |-> 0, fetchAt |-> -1]

\* code.py runs its startup sequence
Startup(lv, o) ==
    /\ pc = "boot"
    /\ \E r \in {StartupSequence(sys, now, lv, o)} :
          /\ sys' = r.s
          /\ now' = r.t
          /\ tk' = [NoTk EXCEPT !.name = "startup",
                                !.settings = r.s.code.settings_mode,
                                !.flag = sys.cfg.SETTINGS_MODE,
                                !.held = lv,
                                !.started = r.t]
    /\ pc' = "loop"
    /\ UNCHANGED <<ticks, buttonVars, wifiVars, fetchVars, configVars>>

\* one pass of the main loop, dt after the end of the previous pass, with
\* the raw levels lv of the buttons, the pins of the encoder and the
\* outcomes o of its network operations
Tick(dt, lv, pins, o) ==
    /\ pc = "loop"
    /\ ticks < MaxTicks
    /\ ticks' = ticks + 1
    /\ \E r \in {LoopPass(sys, now + dt, lv, pins, o)} :
       LET t0 == now + dt
           notified == r.s.wifi.last_connection_attempt > now
       IN /\ sys' = r.s
          /\ now' = r.t
          /\ pc' = IF r.raised THEN "crashed" ELSE "loop"
          /\ tk' = [name |-> "pass",
                    settings |-> sys.code.settings_mode,
                    toggled |-> r.toggled,
                    notified |-> notified,
                    action |-> r.action,
                    hid |-> r.hid,
                    exited |-> r.exited,
                    rotated |-> r.rotated,
                    inMic |-> MicWindowOpen(r.s, t0),
                    inStatus |-> StatusWindowOpen(r.s, t0),
                    micQuiet |-> IF notified THEN FALSE
                                 ELSE IF r.toggled THEN TRUE
                                 ELSE tk.micQuiet,
                    statusAtToggle |-> IF r.toggled THEN StatusWindowOpen(sys, t0)
                                       ELSE tk.statusAtToggle,
                    clearedUntil |-> IF r.toggled
                                     THEN sys.code.show_status_until
                                     ELSE tk.clearedUntil,
                    longExpired |-> t0 >= r.s.code.show_mic_state_until
                                              + DISPLAY_ROTATION_INTERVAL,
                    advanced |-> r.s.code.settings_info_index
                                     # sys.code.settings_info_index,
                    target |-> r.target,
                    flag |-> sys.cfg.SETTINGS_MODE,
                    held |-> lv,
                    ev |-> r.ev,
                    started |-> tk.started,
                    sw |-> pins.sw,
                    acts |-> r.acts,
                    hotkeys |-> r.hotkeys,
                    offline |-> r.offline,
                    retried |-> r.retried,
                    retryAt |-> IF r.retried THEN t0 ELSE tk.retryAt,
                    fetches |-> r.fetches,
                    fetchAt |-> IF r.fetches > 0 THEN t0 ELSE tk.fetchAt]
    /\ UNCHANGED <<buttonVars, wifiVars, fetchVars, configVars>>

\* the loop calls check_buttons(mic_on, toggle_mic_hotkey), dt after the
\* call before, with the raw levels lv, and keeps the returned mic state
\* (line 199)
DoCheckButtons(dt, lv) ==
    /\ ticks < MaxChecks
    /\ ticks' = ticks + 1
    /\ now' = now + dt
    /\ \E r \in {CheckButtons(sys.btn, sys.code.mic_on, now + dt, lv)} :
          /\ sys' = [sys EXCEPT !.btn = r.btn, !.code.mic_on = r.mic_on]
          /\ tk' = [NoTk EXCEPT !.name = "check_buttons",
                                !.held = lv,
                                !.ev = r.ev,
                                !.acts = r.acts,
                                !.action = r.action,
                                !.toggled = r.toggled,
                                !.hotkeys = r.hotkeys,
                                !.hid = ToggleMicHotkey(r.hotkeys)]
    /\ UNCHANGED <<pc, buttonVars, wifiVars, fetchVars, configVars>>

(***************************************************************************)
(* config_manager.py                                                       *)
(*   cm    _config (loaded: it is not None), _config_last_modified,        *)
(*         _config_last_check, _filesystem_readonly                        *)
(*   disk  fs: "rw" the program can write, "ro" writes raise OSError(30);  *)
(*         exists, kind ("json", "empty", "invalid"), doc and mtime of     *)
(*         /settings.json                                                  *)
(* Values are written as strings ("True", "False", "imperial", ...).       *)
(***************************************************************************)
\* two of the keys of DEFAULT_CONFIG
DEFAULT_CONFIG == ("SETTINGS_MODE" :> "False") @@ ("WEATHER_UNITS" :> "imperial")

CONFIG_CHECK_INTERVAL == 10000

EmptyMap == [k \in {} |-> "None"]

\* the values of the dictionary win over the values of the update
DictUpdateKeepsOld(d, u) ==
    [k \in DOMAIN d \cup DOMAIN u |-> IF k \in DOMAIN d THEN d[k] ELSE u[k]]

\* dict.update: d after d.update(u)
DictUpdate(d, u) ==
    [k \in DOMAIN d \cup DOMAIN u |-> IF k \in DOMAIN u THEN u[k] ELSE d[k]]

\* dict.get(k, default)
DictGet(d, k, default) == IF k \in DOMAIN d THEN d[k] ELSE default

\* the module globals after import
CmInit ==
    [config |-> EmptyMap,
     loaded |-> FALSE,
     last_modified |-> 0,
     last_check |-> 0,
     readonly |-> FALSE]

NoFile == [fs |-> "rw", exists |-> FALSE, kind |-> "empty", doc |-> EmptyMap, mtime |-> 0]

\* st_mtime of a file written at time t, in seconds
MTime(t) == t \div 1000

\* load_config(): a file that cannot be opened, is empty or is not JSON
\* gives the defaults
LoadConfig(c, d) ==
    [c EXCEPT !.loaded = TRUE,
              !.config = IF d.exists /\ d.kind = "json"
                         THEN DictUpdate(DEFAULT_CONFIG, d.doc)
                         ELSE DEFAULT_CONFIG]

\* the outcomes of open(CONFIG_FILE, "w") and write on the file system d
WriteOutcomes(d) == IF d.fs = "ro" THEN {"rofs"} ELSE {"ok", "error"}

\* save_config(config) at time t; given: config is not None; w is the
\* outcome of the write if there is one
SaveConfig(c, d, t, given, config, w) ==
    IF c.readonly
    THEN [c |-> IF given THEN [c EXCEPT !.config = config, !.loaded = TRUE] ELSE c,
          d |-> d, r |-> TRUE, wrote |-> FALSE]
    ELSE LET cfg == IF given THEN config
                    ELSE IF c.loaded THEN c.config ELSE DEFAULT_CONFIG
             c1 == IF ~given /\ ~c.loaded
                   THEN [c EXCEPT !.config = cfg, !.loaded = TRUE]
                   ELSE c
         IN CASE w = "ok" ->
                   [c |-> [c1 EXCEPT !.last_modified = MTime(t)],
                    d |-> [d EXCEPT !.exists = TRUE, !.kind = "json",
                                    !.doc = cfg, !.mtime = MTime(t)],
                    r |-> TRUE, wrote |-> TRUE]
              [] w = "rofs" ->
                   [c |-> [c1 EXCEPT !.readonly = TRUE, !.config = cfg,
                                     !.loaded = TRUE],
                    d |-> d, r |-> TRUE, wrote |-> TRUE]
              [] OTHER ->
                   [c |-> c1, d |-> d, r |-> FALSE, wrote |-> TRUE]

\* get_config never looks at the read-only flag
GetConfigAlwaysChecksFile(c, d, t, w) ==
    IF ~c.loaded \/ t - c.last_check > CONFIG_CHECK_INTERVAL
    THEN LET c1 == [c EXCEPT !.last_check = t]
         IN IF d.exists
            THEN IF ~c1.loaded \/ d.mtime > c1.last_modified
                 THEN [c |-> [LoadConfig(c1, d) EXCEPT !.last_modified = d.mtime],
                       d |-> d, wrote |-> FALSE, read |-> TRUE]
                 ELSE [c |-> c1, d |-> d, wrote |-> FALSE, read |-> FALSE]
            ELSE LET sv == SaveConfig(c1, d, t, TRUE, DEFAULT_CONFIG, w)
                 IN [c |-> [sv.c EXCEPT !.config = DEFAULT_CONFIG, !.loaded = TRUE],
                     d |-> sv.d, wrote |-> sv.wrote, read |-> FALSE]
    ELSE [c |-> c, d |-> d, wrote |-> FALSE, read |-> FALSE]

\* get_config() at time t; read: load_config was called
GetConfig(c, d, t, w) ==
    IF ~c.loaded \/ t - c.last_check > CONFIG_CHECK_INTERVAL
    THEN LET c1 == [c EXCEPT !.last_check = t]
         IN IF c1.readonly
            THEN [c |-> IF ~c1.loaded
                        THEN [c1 EXCEPT !.config = DEFAULT_CONFIG, !.loaded = TRUE]
                        ELSE c1,
                  d |-> d, wrote |-> FALSE, read |-> FALSE]
            ELSE IF d.exists
            THEN IF ~c1.loaded \/ d.mtime > c1.last_modified
                 THEN [c |-> [LoadConfig(c1, d) EXCEPT !.last_modified = d.mtime],
                       d |-> d, wrote |-> FALSE, read |-> TRUE]
                 ELSE [c |-> c1, d |-> d, wrote |-> FALSE, read |-> FALSE]
            ELSE LET sv == SaveConfig(c1, d, t, TRUE, DEFAULT_CONFIG, w)
                 IN [c |-> [sv.c EXCEPT !.config = DEFAULT_CONFIG, !.loaded = TRUE],
                     d |-> sv.d, wrote |-> sv.wrote, read |-> FALSE]
    ELSE [c |-> c, d |-> d, wrote |-> FALSE, read |-> FALSE]

\* get_value(key, default) at time t
GetValue(c, d, t, key, default, w) ==
    LET g == GetConfig(c, d, t, w)
    IN [c |-> g.c, d |-> g.d, r |-> DictGet(g.c.config, key, default),
        wrote |-> g.wrote, read |-> g.read, got |-> g.c.config]

\* set_value(key, value, save_immediately) at time t; saved: the file
\* write of save_config was tried
SetValue(c, d, t, key, value, save_immediately, w) ==
    LET g == GetConfig(c, d, t, w)
        c1 == [g.c EXCEPT !.config = DictUpdate(@, key :> value)]
    IN IF save_immediately
       THEN LET sv == SaveConfig(c1, g.d, t, FALSE, EmptyMap, w)
            IN [c |-> sv.c, d |-> sv.d, r |-> sv.r,
                wrote |-> g.wrote, saved |-> sv.wrote,
                read |-> g.read, got |-> g.c.config]
       ELSE [c |-> c1, d |-> g.d, r |-> TRUE,
             wrote |-> g.wrote, saved |-> FALSE,
             read |-> g.read, got |-> g.c.config]

\* what the last call did: its name and key, what it returned (r for
\* get_value, ok for set_value), whether it tried to write the file,
\* whether load_config ran in it, on which file, and with which result,
\* whether _filesystem_readonly was set before it; and the value set last
\* for each key set so far by the calls that found or left
\* _filesystem_readonly set
NoCop ==
    [name |-> "none", key |-> "none", r |-> "None", ok |-> FALSE,
     wrote |-> FALSE, read |-> FALSE, file |-> NoFile, got |-> EmptyMap,
     wasReadonly |-> FALSE, set |-> EmptyMap]

\* time passes between two calls
ConfigTick(dt) ==
    /\ csteps < MaxConfigSteps
    /\ csteps' = csteps + 1
    /\ now' = now + dt
    /\ cop' = [NoCop EXCEPT !.set = cop.set]
    /\ UNCHANGED <<cm, disk, buttonVars, wifiVars, sys, fetchVars, mainVars>>

\* a caller calls get_value(key, "None")
DoGetValue(key, w) ==
    /\ csteps < MaxConfigSteps
    /\ csteps' = csteps + 1
    /\ w \in WriteOutcomes(disk)
    /\ \E g \in {GetValue(cm, disk, now, key, "None", w)} :
          /\ cm' = g.c
          /\ disk' = g.d
          /\ cop' = [NoCop EXCEPT !.name = "get_value", !.key = key,
                                  !.r = g.r, !.wrote = g.wrote,
                                  !.read = g.read, !.file = disk,
                                  !.got = g.got,
                                  !.wasReadonly = cm.readonly,
                                  !.set = cop.set]
    /\ UNCHANGED <<now, buttonVars, wifiVars, sys, fetchVars, mainVars>>

\* a caller calls set_value(key, value, save_immediately)
DoSetValue(key, value, save_immediately, w) ==
    /\ csteps < MaxConfigSteps
    /\ csteps' = csteps + 1
    /\ w \in WriteOutcomes(disk)
    /\ \E g \in {SetValue(cm, disk, now, key, value, save_immediately, w)} :
          /\ cm' = g.c
          /\ disk' = g.d
          /\ cop' = [NoCop EXCEPT !.name = "set_value", !.key = key,
                                  !.ok = g.r, !.wrote = g.wrote \/ g.saved,
                                  !.read = g.read, !.file = disk,
                                  !.got = g.got,
                                  !.wasReadonly = cm.readonly,
                                  !.set = IF g.c.readonly
                                          THEN DictUpdate(cop.set, key :> value)
                                          ELSE cop.set]
    /\ UNCHANGED <<now, buttonVars, wifiVars, sys, fetchVars, mainVars>>

\* the host computer, for which the drive is writable while it is read-only
\* for the program, replaces /settings.json
HostEdit(doc) ==
    /\ csteps < MaxConfigSteps
    /\ csteps' = csteps + 1
    /\ disk.fs = "ro"
    /\ disk' = [disk EXCEPT !.exists = TRUE, !.kind = "json", !.doc = doc,
                            !.mtime = MTime(now) + 1]
    /\ cop' = [NoCop EXCEPT !.name = "host", !.set = cop.set]
    /\ UNCHANGED <<now, cm, buttonVars, wifiVars, sys, fetchVars, mainVars>>

(***************************************************************************)
(* Specifications                                                          *)
(***************************************************************************)
\* config_manager as imported, with /settings.json as d
ConfigAfterImport(d) ==
    /\ cm = CmInit
    /\ disk = d
    /\ cop = NoCop
    /\ csteps = 0

\* the state after the imports of code.py at time t0
StateAfterImport(t0) ==
    /\ button = ButtonInit(t0)
    /\ events = NoEvents
    /\ raw = FALSE
    /\ run = NoRun
    /\ rel = NoRel
    /\ polls = 0
    /\ wifi = WifiInit
    /\ op = NoOp
    /\ failStreak = 0
    /\ scenario = TRUE
    /\ fop = NoFop
    /\ fsteps = 0
    /\ pc = "boot"
    /\ ticks = 0
    /\ tk = NoTk

\* the modules have just been imported
Init ==
    /\ now = 0
    /\ StateAfterImport(0)
    /\ ConfigAfterImport(NoFile)
    /\ sys = SysInit(NoConfig)

\* the main loop is entered: the startup sequence sleeps STARTUP_SLEEP after
\* the imports
LoopInit ==
    /\ now = STARTUP_SLEEP
    /\ StateAfterImport(0)
    /\ ConfigAfterImport(NoFile)
    /\ sys = SysInit(NoConfig)

\* one poll: the main loop calls button.update() dt after the previous poll
\* and the pin reads is_pressed_now
Update(dt, is_pressed_now) ==
    /\ polls < MaxPolls
    /\ polls' = polls + 1
    /\ now' = now + dt
    /\ LET r == ButtonUpdate(button, now', is_pressed_now)
       IN /\ button' = r.btn
          /\ events' = r.ev
          /\ run' = NextRun(run, raw, is_pressed_now, now', r.ev)
          /\ rel' = NextRel(rel, now', r.ev)
    /\ raw' = is_pressed_now
    /\ UNCHANGED <<wifiVars, sys, fetchVars, mainVars, configVars>>

ButtonNext == \E dt \in ButtonSteps, lvl \in BOOLEAN : Update(dt, lvl)

ButtonSpec == LoopInit /\ [][ButtonNext]_vars

\* Button.update polled by a caller that does not sleep LOOP_SLEEP between
\* two polls (the class asks to be polled "frequently"; the main loop of
\* code.py never polls it less than LOOP_SLEEP apart)
DebounceNext == \E dt \in DebounceSteps, lvl \in BOOLEAN : Update(dt, lvl)

DebounceSpec == LoopInit /\ [][DebounceNext]_vars

WifiNext ==
    \/ \E dt \in WifiSteps : WifiTick(dt)
    \/ \E ok \in BOOLEAN : DoEnsure(ok)
    \/ \E ok \in BOOLEAN : DoRetry(ok)
    \/ DoReset
    \/ DoDisconnect
    \/ DoDisableRadio
    \/ DoEnableRadio
    \/ LinkDown
    \/ LinkUp

WifiSpec == Init /\ [][WifiNext]_vars

\* the modules are imported with the API key configured anywhere or nowhere
FetchInit ==
    /\ now = 0
    /\ StateAfterImport(0)
    /\ ConfigAfterImport(NoFile)
    /\ \E k \in ApiKeys : sys = SysInit([NoConfig EXCEPT !.api_key = k])

\* the connectivity changes that the callers of both modules see
ConnectivityNext ==
    \/ \E ok \in BOOLEAN : DoSysEnsure(ok)
    \/ DoSysReset
    \/ \E up \in BOOLEAN : SysLink(up)

\* weather_module, called in any order at any time
WeatherNext ==
    \/ \E dt \in WeatherSteps : FetchTick(dt)
    \/ \E force \in BOOLEAN, resp \in WeatherResponses : DoGetWeatherData(force, resp)
    \/ \E resp \in WeatherResponses : DoFetchWeather(resp)
    \/ ConnectivityNext

WeatherSpec == FetchInit /\ [][WeatherNext]_vars

\* ntp_module, called in any order at any time
NtpNext ==
    \/ \E dt \in NtpSteps : FetchTick(dt)
    \/ \E force, connect, ntp \in BOOLEAN : DoSyncTime(force, connect, ntp)
    \/ ConnectivityNext

NtpSpec == FetchInit /\ [][NtpNext]_vars

\* code.py: the modules are imported, the startup sequence runs, then the
\* main loop
MainInit ==
    /\ now = 0
    /\ StateAfterImport(0)
    /\ ConfigAfterImport(NoFile)
    /\ \E cfg \in StartConfigs : sys = SysInit(cfg)

MainNext ==
    \/ \E lv \in BootLevels, o \in PassOutcomes : Startup(lv, o)
    \/ \E dt \in MainSteps, lv \in PassLevels, pins \in PassPins, o \in PassOutcomes :
          Tick(dt, lv, pins, o)

MainSpec == MainInit /\ [][MainNext]_vars

\* the display rotation: code.py in normal mode with no input on the
\* buttons and the encoder
RotationInit ==
    /\ now = 0
    /\ StateAfterImport(0)
    /\ ConfigAfterImport(NoFile)
    /\ \E cfg \in RotationConfigs : sys = SysInit(cfg)

RotationNext ==
    \/ \E lv \in RotationBootLevels, o \in RotationOutcomes : Startup(lv, o)
    \/ \E dt \in RotationSteps, lv \in RotationLevels, pins \in PassPins,
          o \in RotationOutcomes :
          Tick(dt, lv, pins, o)

RotationSpec == RotationInit /\ [][RotationNext]_vars

\* the loss of the connection: code.py on a radio that loses and regains
\* its address
ReconnectInit ==
    /\ now = 0
    /\ StateAfterImport(0)
    /\ ConfigAfterImport(NoFile)
    /\ \E cfg \in ReconnectConfigs : sys = SysInit(cfg)

ReconnectNext ==
    \/ \E lv \in RotationBootLevels, o \in ReconnectOutcomes : Startup(lv, o)
    \/ \E dt \in ReconnectSteps, lv \in ReconnectLevels, pins \in PassPins,
          o \in ReconnectOutcomes :
          Tick(dt, lv, pins, o)
    \/ \E up \in BOOLEAN : pc = "loop" /\ SysLink(up)

ReconnectSpec == ReconnectInit /\ [][ReconnectNext]_vars

\* the controls: code.py with input on the buttons and on the switch of the
\* encoder, in settings mode and in normal mode
InputInit ==
    /\ now = 0
    /\ StateAfterImport(0)
    /\ ConfigAfterImport(NoFile)
    /\ \E cfg \in InputConfigs, order \in InputOrders :
          sys = [SysInit(cfg) EXCEPT !.btn.order = order]

InputNext ==
    \/ \E lv \in InputBootLevels, o \in InputOutcomes : Startup(lv, o)
    \/ \E dt \in InputSteps, i \in InputSamples, o \in InputOutcomes :
          /\ ticks < MaxInputTicks
          /\ Tick(dt, i.lv, i.pins, o)

InputSpec == InputInit /\ [][InputNext]_vars

\* check_buttons on its own, with every order of action_table.items()
CheckInit ==
    /\ now = 0
    /\ StateAfterImport(0)
    /\ ConfigAfterImport(NoFile)
    /\ \E order \in ButtonOrders :
          sys = [SysInit(NoConfig) EXCEPT !.btn.order = order]

CheckNext == \E dt \in CheckSteps, lv \in CheckLevels : DoCheckButtons(dt, lv)

CheckSpec == CheckInit /\ [][CheckNext]_vars

\* config_manager, called in any order at any time after the startup sleep
ConfigInit ==
    /\ now = STARTUP_SLEEP
    /\ StateAfterImport(0)
    /\ sys = SysInit(NoConfig)
    /\ cm = CmInit
    /\ cop = NoCop
    /\ csteps = 0
    /\ \E fs \in {"rw", "ro"} :
          \/ disk = [NoFile EXCEPT !.fs = fs]
          \/ \E kind \in {"empty", "invalid"} :
                disk = [NoFile EXCEPT !.fs = fs, !.exists = TRUE,
                                      !.kind = kind, !.mtime = 1]
          \/ \E doc \in ConfigDocuments :
                disk = [NoFile EXCEPT !.fs = fs, !.exists = TRUE,
                                      !.kind = "json", !.doc = doc, !.mtime = 1]

ConfigNext ==
    \/ \E dt \in ConfigSteps : ConfigTick(dt)
    \/ \E key \in ConfigKeys, w \in {"ok", "error", "rofs"} : DoGetValue(key, w)
    \/ \E key \in ConfigKeys, value \in ConfigValues, save \in BOOLEAN,
          w \in {"ok", "error", "rofs"} : DoSetValue(key, value, save, w)
    \/ \E doc \in HostDocuments : HostEdit(doc)

ConfigSpec == ConfigInit /\ [][ConfigNext]_vars

(***************************************************************************)
(* Claims about Button.update (checked under ButtonSpec)                   *)
(***************************************************************************)

\* C1: a press whose raw level is sampled as pressed for less than
\* DEBOUNCE_TIME (from its first to its last pressed sample) produces no
\* event in any poll of that press, the poll that sees it end included.
C1_ShortPressNoEvent ==
    (run.ended /\ run.last - run.start < DEBOUNCE_TIME) => ~run.hadEvent

C1_Witness ==
    /\ run.ended
    /\ run.last - run.start < DEBOUNCE_TIME
    /\ button.state = IDLE
    /\ rel.at >= 0

\* C2: the poll that returns released also returns long_press exactly when
\* the time since the poll that returned pressed is >= LONG_PRESS_TIME, and
\* long_press is never returned without released.
C2_LongPressWithRelease ==
    /\ events.long_press => events.released
    /\ events.released =>
           (events.long_press <=> now - rel.pressedAt >= LONG_PRESS_TIME)

C2_Witness ==
    /\ events.released
    /\ events.long_press
    /\ now - rel.pressedAt = LONG_PRESS_TIME

\* C3: a release less than DOUBLE_CLICK_TIME after the previous release
\* returns double_click together with released.
C3_QuickReleaseIsDoubleClick ==
    (events.released /\ rel.gap >= 0 /\ rel.gap < DOUBLE_CLICK_TIME)
        => events.double_click

C3_Witness ==
    /\ events.released
    /\ rel.gap >= 0
    /\ rel.gap < DOUBLE_CLICK_TIME
    /\ events.double_click
    /\ Len(rel.dcs) = 3

\* C4: of three releases, each less than DOUBLE_CLICK_TIME after the one
\* before and the first not itself a double click, the second returns
\* double_click and the third does not.
C4_ThirdReleaseNotDoubleClick ==
    (Len(rel.dcs) = 3 /\ ~rel.dcs[1]) => (rel.dcs[2] /\ ~rel.dcs[3])

(***************************************************************************)
(* Claims about the connectivity manager (checked under WifiSpec)          *)
(***************************************************************************)

\* C5: the failed attempt that makes MAX_RETRY_ATTEMPTS failures in a row
\* leaves the manager in offline mode; in offline mode ensure_wifi_connected()
\* returns False, does not call connect and changes neither
\* _connection_attempts, _last_connection_attempt nor _connected; and offline
\* mode lasts until retry_connection or reset_connection_state is called.
C5_OfflineIsSticky ==
    [][/\ (op'.attempted /\ ~op'.ok /\ failStreak' >= MAX_RETRY_ATTEMPTS)
              => wifi'.offline_mode
       /\ (wifi.offline_mode /\ op'.name = "ensure")
              => /\ ~op'.result
                 /\ ~op'.attempted
                 /\ wifi'.connection_attempts = wifi.connection_attempts
                 /\ wifi'.last_connection_attempt = wifi.last_connection_attempt
                 /\ wifi'.connected = wifi.connected
       /\ (wifi.offline_mode /\ op'.name \notin {"retry", "reset"})
              => wifi'.offline_mode]_vars

C5_Witness ==
    /\ op.name = "ensure"
    /\ op.preOffline
    /\ ~op.attempted
    /\ ~op.result
    /\ ~op.preEarly
    /\ failStreak = MAX_RETRY_ATTEMPTS
    /\ wifi.offline_mode

\* C6 as stated: every call of retry_connection performs a connect attempt.
C6_RetryAlwaysAttempts == op.name = "retry" => op.attempted

\* C6 amended: retry_connection performs a connect attempt exactly when the
\* manager is not already connected with the link up, whatever the offline
\* flag and the time since the last attempt; without an attempt it returns
\* True and leaves offline mode cleared.
C6_RetryAttemptsUnlessConnected ==
    op.name = "retry" =>
        /\ op.attempted <=> ~op.preUp
        /\ ~op.attempted => (op.result /\ ~wifi.offline_mode)

C6_Witness ==
    /\ op.name = "retry"
    /\ op.preOffline
    /\ op.preEarly
    /\ ~op.preUp
    /\ op.attempted

\* the wait the claim requires after n attempts
C7_Wait(n) ==
    CASE n = 1 -> 3000
      [] n = 2 -> 6000
      [] n = 3 -> 12000
      [] n = 4 -> 24000
      [] n = 5 -> 48000
      [] OTHER -> 60000

\* C7: a non-forced ensure_wifi_connected() that is neither offline nor
\* connected with the link up, with n > 0 attempts counted: before the wait
\* min(BASE * 2^(n-1), MAX) is over it returns False without an attempt and
\* without changing the attempt tracking; otherwise it makes one attempt,
\* numbered n + 1.  The waits before attempts 2..5 are 3, 6, 12, 24 s.
C7_BackoffGate ==
    [][(/\ op'.name = "ensure"
        /\ ~wifi.offline_mode
        /\ ~AlreadyConnected(RadioOn(wifi))
        /\ wifi.connection_attempts > 0)
       => IF now - wifi.last_connection_attempt < C7_Wait(wifi.connection_attempts)
          THEN /\ ~op'.result
               /\ ~op'.attempted
               /\ wifi'.connection_attempts = wifi.connection_attempts
               /\ wifi'.last_connection_attempt = wifi.last_connection_attempt
          ELSE /\ op'.attempted
               /\ op'.attemptNo = wifi.connection_attempts + 1
               /\ wifi'.last_connection_attempt = now]_vars

C7_Witness ==
    /\ scenario
    /\ op.name = "ensure"
    /\ op.attempted
    /\ op.attemptNo = 5
    /\ now = 3000 + 6000 + 12000 + 24000

\* the delay before the next non-forced attempt
RequiredDelay(w) ==
    IF w.connection_attempts > 0 THEN BackoffDelay(w.connection_attempts) ELSE 0

\* C8: over consecutive failures the required delay never decreases, never
\* exceeds MAX_RETRY_DELAY, and once it is MAX_RETRY_DELAY it stays there,
\* also for counts above MAX_RETRY_ATTEMPTS; it is MAX_RETRY_DELAY from the
\* sixth failure on.
C8_BackoffMonotone ==
    [][(op'.attempted /\ ~op'.ok)
       => /\ RequiredDelay(wifi') >= RequiredDelay(wifi)
          /\ RequiredDelay(wifi') <= MAX_RETRY_DELAY
          /\ RequiredDelay(wifi) = MAX_RETRY_DELAY
                 => RequiredDelay(wifi') = MAX_RETRY_DELAY
          /\ wifi'.connection_attempts > MAX_RETRY_ATTEMPTS
                 => RequiredDelay(wifi') = MAX_RETRY_DELAY]_vars

C8_Witness ==
    /\ op.attempted
    /\ ~op.ok
    /\ wifi.connection_attempts = MAX_RETRY_ATTEMPTS + 2
    /\ RequiredDelay(wifi) = MAX_RETRY_DELAY

\* C9 as stated: with every attempt failing, the manager is not offline
\* after the fifth failed attempt.
C9_NotOfflineAfterFifth ==
    (scenario /\ failStreak = MAX_RETRY_ATTEMPTS) => ~wifi.offline_mode

\* C9 amended: with every attempt failing, the manager is offline exactly
\* from the fifth failed attempt on, and no sixth attempt is made.
C9_OfflineAtFifth ==
    scenario =>
        /\ wifi.offline_mode <=> failStreak = MAX_RETRY_ATTEMPTS
        /\ failStreak <= MAX_RETRY_ATTEMPTS
        /\ wifi.connection_attempts = failStreak

C9_Witness ==
    /\ scenario
    /\ op.name = "ensure"
    /\ op.attempted
    /\ ~op.ok
    /\ failStreak = MAX_RETRY_ATTEMPTS
    /\ wifi.offline_mode

\* C10: after a successful connect attempt, forced or not, _connected is
\* true, _connection_attempts is 0 and offline mode is off.
C10_SuccessResets ==
    (op.attempted /\ op.ok) =>
        /\ wifi.connected
        /\ wifi.connection_attempts = 0
        /\ ~wifi.offline_mode

C10_Witness ==
    /\ op.name = "retry"
    /\ op.preOffline
    /\ op.attempted
    /\ op.ok
    /\ op.attemptNo > MAX_RETRY_ATTEMPTS

\* C11: the attempt counter changes only by going up by one, immediately
\* before a connect attempt, or by being set to 0, on a successful connect or
\* an explicit reset; a failed attempt, a backoff refusal and a disconnect
\* never reset it and nothing lowers it to a non-zero value.
C11_CounterSteps ==
    [][ /\ op'.attempted => op'.attemptNo = wifi.connection_attempts + 1
        /\ \/ wifi'.connection_attempts = wifi.connection_attempts
           \/ /\ wifi'.connection_attempts = wifi.connection_attempts + 1
              /\ op'.attempted
              /\ ~op'.ok
           \/ /\ wifi'.connection_attempts = 0
              /\ (op'.attempted /\ op'.ok) \/ op'.name = "reset" ]_vars

C11_Witness ==
    /\ op.name = "disconnect"
    /\ wifi.connection_attempts = 3

\* C12: reset_connection_state() leaves Offline false, the attempt counter 0
\* and the connected flag false, whatever the state it was called in.
C12_ResetClears ==
    op.name = "reset" =>
        /\ ~IsOfflineMode(wifi)
        /\ wifi.connection_attempts = 0
        /\ ~wifi.connected

C12_Witness ==
    /\ op.name = "reset"
    /\ op.preOffline
    /\ op.preUp
    /\ op.attemptNo >= MAX_RETRY_ATTEMPTS
    /\ C12_ResetClears

(***************************************************************************)
(* Claims about weather (WeatherSpec) and time-sync (NtpSpec)               *)
(***************************************************************************)

\* C13: get_weather_data(force_refresh) starts a fetch exactly when
\* force_refresh is true, or nothing is cached, or the cache is at least
\* WEATHER_FETCH_INTERVAL old; a non-forced call on a younger cache changes
\* nothing and returns the cached data.
C13_FetchWhenStale ==
    [][ fop'.name = "get" =>
          /\ fop'.fetched <=> \/ fop'.force
                              \/ sys.weather.data = NoData
                              \/ now - sys.weather.last_fetch >= WEATHER_FETCH_INTERVAL
          /\ ~fop'.fetched => sys' = sys /\ fop'.ok ]_vars

C13_Witness ==
    /\ fop.name = "get"
    /\ ~fop.force
    /\ fop.cached
    /\ fop.age = "at"
    /\ fop.fetched
    /\ sys.weather.last_fetch = now

\* C14: a fetch_weather() that fails (not connected, no API key, no socket
\* pool, a status other than 200, an exception) leaves _weather_data and
\* _last_weather_fetch as they were.
C14_FailedFetchKeepsCache ==
    [][ (fop'.name \in {"fetch", "get"} /\ fop'.fetched /\ ~fop'.ok)
            => sys'.weather = sys.weather ]_vars

C14_Witness ==
    /\ fop.name = "fetch"
    /\ ~fop.ok
    /\ fop.cached
    /\ IsConnected(sys.wifi)
    /\ IsOfflineMode(sys.wifi)
    /\ HasApiKey(sys)
    /\ sys.weather.last_fetch < now

\* C15: a sync_time() whose NTP query fails leaves _last_sync_time as it
\* was, so that the freshness of the last successful synchronisation is
\* judged as before the failed attempt.
C15_FailedSyncKeepsClock ==
    [][ (fop'.name = "sync" /\ fop'.queried /\ ~fop'.ok /\ sys.ntp.rtc_synced)
            => sys'.ntp.last_sync_time = sys.ntp.last_sync_time ]_vars

\* C16: _rtc_synced becomes true only with a successful NTP query and is
\* never cleared afterwards.
C16_SyncedLatch ==
    [][ /\ sys.ntp.rtc_synced => sys'.ntp.rtc_synced
        /\ (~sys.ntp.rtc_synced /\ sys'.ntp.rtc_synced)
              => (fop'.name = "sync" /\ fop'.queried /\ fop'.ok) ]_vars

C16_Witness ==
    /\ fop.name = "sync"
    /\ fop.queried
    /\ ~fop.ok
    /\ fop.synced
    /\ sys.ntp.rtc_synced

(***************************************************************************)
(* Claims about the main loop of code.py (checked under MainSpec)          *)
(***************************************************************************)

\* C17: a mic toggle in a pass in which a status window is open, and in
\* which no new status notification arrives, leaves the display on Mic and
\* the status window cleared; and as long as no new notification arrives
\* after such a toggle, no pass ends with the display on Status or with a
\* status window open, also after the mic window is over.
C17_MicClearsStatus ==
    /\ (tk.toggled /\ tk.statusAtToggle /\ ~tk.notified)
          => /\ sys.oled.current_mode = MIC
             /\ sys.code.show_status_until = 0
             /\ tk.inMic
    /\ (tk.micQuiet /\ tk.statusAtToggle)
          => /\ sys.oled.current_mode # STATUS
             /\ ~tk.inStatus

C17_Witness ==
    /\ tk.name = "pass"
    /\ tk.micQuiet
    /\ tk.statusAtToggle
    /\ ~tk.toggled
    /\ ~tk.inMic
    /\ now < tk.clearedUntil

\* C18: in normal mode, once the mic window has been over for a rotation
\* interval, with no mic toggle and no status notification since the toggle
\* that opened it, the display shows Time or Weather again.
C18_MicGivesWayToRotation ==
    (/\ pc = "loop"
     /\ ~sys.code.settings_mode
     /\ tk.micQuiet
     /\ ~tk.toggled
     /\ tk.longExpired)
        => sys.oled.current_mode \in {TIME, WEATHER}

\* C19: in normal mode every pass that finds the mic window open ends with
\* the display on Mic, also when a status notification arrived in it.
C19_MicWindowShowsMic ==
    (tk.name = "pass" /\ ~tk.settings /\ tk.inMic)
        => sys.oled.current_mode = MIC

\* C20: every pass that ends in settings mode ends with the settings screen
\* on the display (drawn as a status text), with settings_info_index in
\* 0..5; the index stays or goes to the next screen, wrapping, and it
\* moves only when more than SETTINGS_INFO_ROTATE_INTERVAL has passed since
\* settings_info_last_change, which then becomes the time of the pass.
C20_SettingsScreen ==
    [][ (ticks' = ticks + 1 /\ sys'.code.settings_mode) =>
          /\ sys'.oled.current_mode = STATUS
          /\ sys'.code.settings_info_index \in 0..(NumSettingsInfoScreens - 1)
          /\ \/ /\ sys'.code.settings_info_index = sys.code.settings_info_index
                /\ sys'.code.settings_info_last_change
                       = sys.code.settings_info_last_change
             \/ /\ sys'.code.settings_info_index
                       = (sys.code.settings_info_index + 1) % NumSettingsInfoScreens
                /\ now' - sys.code.settings_info_last_change
                       > SETTINGS_INFO_ROTATE_INTERVAL
                /\ sys'.code.settings_info_last_change = now' ]_vars

C20_Witness ==
    /\ tk.name = "pass"
    /\ sys.code.settings_mode
    /\ tk.advanced
    /\ sys.code.settings_info_index = 0
    /\ sys.oled.current_mode = STATUS

(***************************************************************************)
(* Claims about the display rotation (checked under RotationSpec)          *)
(***************************************************************************)
\* the latest of the start of the loop and the ends of the mic and status
\* windows
C21_QuietSince ==
    LET a == tk.started
        b == sys.code.show_mic_state_until
        c == sys.code.show_status_until
    IN IF a >= b /\ a >= c THEN a ELSE IF b >= c THEN b ELSE c

\* C21: the display that starts on Time keeps showing Time for one rotation
\* interval: a pass whose rotation step shows Weather is at least
\* DISPLAY_ROTATION_INTERVAL after the start of the loop and after the end
\* of every mic or status window.
C21_TimeHeldForInterval ==
    (tk.name = "pass" /\ tk.rotated /\ tk.target = WEATHER)
        => now - C21_QuietSince >= DISPLAY_ROTATION_INTERVAL

\* C22: a pass whose rotation step lands on Weather without showing it (the
\* weather cannot be formatted) leaves the display on Time and leaves the
\* rotation index as it was before the step.
C22_FallbackKeepsSlot ==
    [][ (ticks' = ticks + 1 /\ pc' = "loop"
         /\ tk'.target = WEATHER /\ ~tk'.rotated) =>
          /\ sys'.oled.current_mode = TIME
          /\ sys'.oled.current_rotation_index
                 = sys.oled.current_rotation_index ]_vars

\* C29: the main loop is never aborted: no pass ends with an exception that
\* leaves the loop, also not a rotation step to Weather whose formatting
\* raises.
C29_LoopNeverAborts == pc # "crashed"

(***************************************************************************)
(* Claims about check_buttons (checked under CheckSpec)                    *)
(***************************************************************************)
\* the events of a button in the order in which check_buttons looks at them
C25_Priority == <<"long_press", "double_click", "released", "pressed">>

\* C25: for every button, the action that a call of check_buttons selects
\* is the binding of the first event, in the order long press, double
\* click, released, pressed, that fired and has a binding; it is no action
\* when there is no such event.
C25_FirstBoundEvent ==
    tk.name = "check_buttons" =>
        \A n \in DOMAIN action_table :
            LET bound == {i \in 1..4 : /\ tk.ev[n][C25_Priority[i]]
                                      /\ action_table[n][C25_Priority[i]] # NoAction}
            IN IF bound = {}
               THEN tk.acts[n] = NoAction
               ELSE \E i \in bound :
                       /\ \A j \in bound : i <= j
                       /\ tk.acts[n] = action_table[n][C25_Priority[i]]

C25_Witness ==
    /\ tk.name = "check_buttons"
    /\ tk.ev.mic.long_press
    /\ tk.acts.mic = "toggle_mic"

\* C26: when skip and back both yield an action in one call of
\* check_buttons, the call returns the action of skip, the first of the two
\* in the order of action_table.
C26_FirstButtonWins ==
    (/\ tk.name = "check_buttons"
     /\ tk.acts.skip # NoAction
     /\ tk.acts.back # NoAction)
        => tk.action = tk.acts.skip

\* C27: a call of check_buttons never returns toggle_mic; when the action
\* of the mic button is toggle_mic, the returned mic state is the negation
\* of the one passed in and the hotkey callback is called once; otherwise
\* the mic state is returned as passed in and the callback is not called.
C27_ToggleStaysInside ==
    [][ (ticks' = ticks + 1 /\ tk'.name = "check_buttons") =>
          /\ tk'.action # "toggle_mic"
          /\ IF tk'.acts.mic = "toggle_mic"
             THEN /\ sys'.code.mic_on = ~sys.code.mic_on
                  /\ tk'.hotkeys = 1
             ELSE /\ sys'.code.mic_on = sys.code.mic_on
                  /\ tk'.hotkeys = 0 ]_vars

C27_Witness ==
    /\ tk.name = "check_buttons"
    /\ tk.acts.mic = "toggle_mic"
    /\ tk.hotkeys = 1
    /\ tk.action = NoAction
    /\ ~sys.code.mic_on

(***************************************************************************)
(* Claims about the controls in the main loop (checked under InputSpec)    *)
(***************************************************************************)
\* C23: a pass exits settings mode only if in it both skip and back
\* register a long press and both are physically held down.
C23_ExitNeedsBoth ==
    (tk.name = "pass" /\ tk.exited)
        => /\ tk.ev.skip.long_press
           /\ tk.ev.back.long_press
           /\ tk.held.skip
           /\ tk.held.back

\* C24: the startup enters settings mode exactly when the SETTINGS_MODE
\* flag of the configuration is true or skip and back are both physically
\* held down.
C24_StartupSettings ==
    tk.name = "startup"
        => (tk.settings <=> (tk.flag \/ (tk.held.skip /\ tk.held.back)))

\* C28: a pass that starts in settings mode sends no HID report and no mic
\* hotkey and leaves mic_on as it was, whatever the buttons and the encoder
\* do.
C28_SettingsSendsNothing ==
    [][ (ticks' = ticks + 1 /\ sys.code.settings_mode) =>
          /\ tk'.hid = <<>>
          /\ sys'.code.mic_on = sys.code.mic_on ]_vars

C28_Witness ==
    /\ tk.name = "pass"
    /\ tk.settings
    /\ tk.ev.mic.released
    /\ tk.sw
    /\ tk.hid = <<>>
    /\ sys.code.mic_on

\* C30: when the switch of the encoder is held down in two passes in a row
\* and the first sent PLAY_PAUSE, the second sends no PLAY_PAUSE.
C30_OneClickPerPress ==
    [][ (/\ ticks' = ticks + 1
         /\ tk.name = "pass"
         /\ tk.sw
         /\ tk'.sw
         /\ \E i \in DOMAIN tk.hid : tk.hid[i] = "PLAY_PAUSE")
          => \A i \in DOMAIN tk'.hid : tk'.hid[i] # "PLAY_PAUSE" ]_vars

C38_EventsAlternate ==
    [][ polls' = polls + 1 =>
          /\ events'.pressed => rel.pressedAt <= rel.at
          /\ events'.released => rel.pressedAt > rel.at
          /\ ~(events'.pressed /\ events'.released)
          /\ events'.double_click => events'.released
          /\ events'.long_press => events'.released ]_vars

\* a second press cycle ends with a release that is a double click
C38_Witness ==
    /\ events.released
    /\ events.double_click
    /\ rel.gap >= 0
    /\ rel.pressedAt > rel.at - rel.gap
    /\ rel.pressedAt < rel.at

(***************************************************************************)
(* Claims about the flags of the connectivity manager (WifiSpec)           *)
(***************************************************************************)
\* C37: is_connected() and is_offline_mode() never both report true.
C37_ConnectedExcludesOffline == ~(IsConnected(wifi) /\ IsOfflineMode(wifi))

(***************************************************************************)
(* Claims about the callers of the connectivity manager (NtpSpec)          *)
(***************************************************************************)
\* C35: a call of sync_time, get_weather_data or fetch_weather leaves
\* _connected, _offline_mode, _connection_attempts and
\* _last_connection_attempt of wifi_module as they were.
C35_FetchOnlyReads ==
    [][ fop'.name \in {"sync", "get", "fetch"} =>
          /\ sys'.wifi.connected = sys.wifi.connected
          /\ sys'.wifi.offline_mode = sys.wifi.offline_mode
          /\ sys'.wifi.connection_attempts = sys.wifi.connection_attempts
          /\ sys'.wifi.last_connection_attempt
                 = sys.wifi.last_connection_attempt ]_vars

(***************************************************************************)
(* Claims about the configuration (ConfigSpec)                             *)
(***************************************************************************)
\* C32: when a call loads a JSON document from /settings.json, the
\* configuration it gets has the value of the document for every key of the
\* document, the default for every other key of DEFAULT_CONFIG, and no
\* other key.
C32_LoadedOverDefaults ==
    (cop.read /\ cop.file.exists /\ cop.file.kind = "json")
        => /\ DOMAIN cop.got = DOMAIN cop.file.doc \cup DOMAIN DEFAULT_CONFIG
           /\ \A k \in DOMAIN cop.file.doc : cop.got[k] = cop.file.doc[k]
           /\ \A k \in DOMAIN DEFAULT_CONFIG \ DOMAIN cop.file.doc :
                 cop.got[k] = DEFAULT_CONFIG[k]

\* a document with a key of the defaults and an unknown key was loaded
C32_Witness ==
    /\ cop.read
    /\ cop.file.kind = "json"
    /\ DOMAIN cop.file.doc = {"SETTINGS_MODE", "EXTRA"}
    /\ cop.got["SETTINGS_MODE"] = "metric"
    /\ cop.got["EXTRA"] = "metric"
    /\ cop.got["WEATHER_UNITS"] = "imperial"

\* C36: once _filesystem_readonly is set it stays set; every set_value
\* that finds it set returns True, does not try to write the file, and
\* leaves its value in the configuration in memory; every get_value that
\* finds it set returns the value set last for its key, if one was set
\* since the save that failed (that save included).
C36_ReadOnlyStaysInMemory ==
    [][ /\ cm.readonly => cm'.readonly
        /\ (cop'.name = "set_value" /\ cm.readonly)
              => /\ cop'.ok
                 /\ ~cop'.wrote
                 /\ DictGet(cm'.config, cop'.key, "None") = cop'.set[cop'.key]
        /\ (cop'.name = "get_value" /\ cm.readonly /\ cop'.key \in DOMAIN cop'.set)
              => cop'.r = cop'.set[cop'.key] ]_vars

\* get_value returns the value set in memory, more than 10 s
\* after a change of the file that the program has not read
C36_Witness ==
    /\ cop.name = "get_value"
    /\ cop.wasReadonly
    /\ cop.key \in DOMAIN cop.set
    /\ cop.r = cop.set[cop.key]
    /\ cm.last_check = now
    /\ disk.exists
    /\ disk.mtime > cm.last_modified
    /\ DictGet(disk.doc, cop.key, "None") # cop.r

(***************************************************************************)
(* Claims about the network stages of the main loop (ReconnectSpec)        *)
(***************************************************************************)
\* C34: a pass calls retry_connection() only when is_offline_mode() is true
\* at the retry test and the pass did not start in settings mode, and the
\* passes of two such calls start more than WIFI_RETRY_INTERVAL apart.
C34_RetryOnlyOffline ==
    [][ (ticks' = ticks + 1 /\ tk'.retried)
          => /\ tk'.offline
             /\ ~tk'.settings
             /\ tk.retryAt >= 0
                   => tk'.retryAt - tk.retryAt > WIFI_RETRY_INTERVAL ]_vars

\* the second retry in a row fails: seven attempts have failed
C34_Witness ==
    /\ tk.name = "pass"
    /\ tk.retried
    /\ tk.offline
    /\ tk.retryAt > WIFI_RETRY_INTERVAL
    /\ sys.wifi.connection_attempts = MAX_RETRY_ATTEMPTS + 2

\* C39: lines 217-241 call fetch_weather at most once in a pass, and the
\* passes of two such calls start more than WEATHER_FETCH_INTERVAL apart.
C39_OneFetchPerInterval ==
    [][ ticks' = ticks + 1
          => /\ tk'.fetches <= 1
             /\ (tk'.fetches > 0 /\ tk.fetchAt >= 0)
                   => tk'.fetchAt - tk.fetchAt > WEATHER_FETCH_INTERVAL ]_vars

====
